---- MODULE Spec2Model ----
(***************************************************************************)
(* Model of the JSON Schema validator of src/lib/json-parser.ts            *)
(* (validateJsonSchema / validateAgainstSchema / getJsonType).             *)
(*                                                                         *)
(* JavaScript values are tagged records.  A number is kept as twice its    *)
(* value (so 5 is Num(10) and 5.5 is Num(11)), plus the three non-finite   *)
(* values.  Text that the code builds with template literals is built here *)
(* with \o on strings, so messages and paths are the literal strings.      *)
(* The schema text handed to JSON.parse is a sequence of lexical tokens.   *)
(*                                                                         *)
(* The second part models performSearch of the search bar component        *)
(* (src/unnamed/part_002): the value searched is a graph of containers     *)
(* held by identity, so that shared and cyclic instances exist, and the    *)
(* loop over the explicit stack runs one iteration per step.               *)
(*                                                                         *)
(* The third part models the state of the viewer component                 *)
(* (src/unnamed/part_003) with parsing, schema changes and in-place edits, *)
(* and the fourth the search bar (src/unnamed/part_002) with its debounce  *)
(* timer and result navigation.  There jsonData is the parsed value        *)
(* itself, a tree.                                                         *)
(***************************************************************************)
EXTENDS Integers, Sequences, FiniteSets, TLC

VARIABLES data, schemaString, errors, thrown, pc

\* performSearch: its arguments, its locals, and where the call stands; pushes
\* and iterations only count what the loop does
VARIABLES jsonData, term, caseSensitive, stack, visited, results, spc,
          pushes, iterations

validatorVars == <<data, schemaString, errors, thrown, pc>>

searchVars ==
  <<jsonData, term, caseSensitive, stack, visited, results, spc, pushes, iterations>>

\* the viewer's state (useState, part_003 lines 17-31), the stored metrics,
\* the parse that is awaited and the node that is being edited
VARIABLES jsonString, originalData, isEdited, isLoading, error, parseMetrics,
          validationErrors, jsonSchema, localStorage, parsePromise, editing

\* the search bar's state (part_003 lines 20-22) and its timer (part_002 line 96)
VARIABLES searchTermState, searchResults, currentSearchIndex, timers,
          searchTimeoutRef

viewerVars ==
  <<jsonString, originalData, isEdited, isLoading, error, parseMetrics,
    validationErrors, jsonSchema, localStorage, parsePromise, editing>>

searchBarVars ==
  <<searchTermState, searchResults, currentSearchIndex, timers, searchTimeoutRef>>

vars == <<validatorVars, searchVars, viewerVars, searchBarVars>>

(***************************************************************************)
(* Bounds of the model.                                                    *)
(***************************************************************************)
MaxArrayLen == 2

MaxBound == 2
MaxSubSchemas == 2

MaxWidth == 2

(***************************************************************************)
(* JavaScript values.                                                      *)
(***************************************************************************)
Null == [t |-> "null"]

Undefined == [t |-> "undefined"]

Fn == [t |-> "function"]

Bool(b) == [t |-> "boolean", b |-> b]

Num(h) == [t |-> "number", k |-> "finite", twice |-> h]

Infinity == [t |-> "number", k |-> "inf", twice |-> 0]

NegInfinity == [t |-> "number", k |-> "ninf", twice |-> 0]

NaN == [t |-> "number", k |-> "nan", twice |-> 0]

Str(s) == [t |-> "string", s |-> s]

Arr(items) == [t |-> "array", items |-> items]

Obj(keys, vals) == [t |-> "object", keys |-> keys, vals |-> vals]

RawText(toks) == [t |-> "text", tokens |-> toks]

Range(seq) == {seq[i] : i \in 1..Len(seq)}

IndexOf(seq, x) == CHOOSE i \in 1..Len(seq) : seq[i] = x

IsPlainObject(v) == v.t = "object"

IsArray(v) == v.t = "array"

IsString(v) == v.t = "string"

IsFinite(v) == v.t = "number" /\ v.k = "finite"

IsInteger(v) == v.t = "number" /\ v.k = "finite" /\ v.twice % 2 = 0

TypeOf(v) ==
  IF v.t \in {"null", "array", "object"} THEN "object" ELSE v.t

Truthy(v) ==
  CASE v.t \in {"null", "undefined"} -> FALSE
    [] v.t = "boolean" -> v.b
    [] v.t = "number" -> v.k \in {"inf", "ninf"} \/ (v.k = "finite" /\ v.twice # 0)
    [] v.t = "string" -> v.s # ""
    [] OTHER -> TRUE

(***************************************************************************)
(* Properties every plain object inherits from Object.prototype; the `in`  *)
(* operator sees them although they are not own keys.                      *)
(***************************************************************************)
ObjectPrototypeKeys == {"toString", "constructor", "hasOwnProperty", "valueOf"}

HasOwn(o, key) == o.t = "object" /\ key \in Range(o.keys)

In(key, o) == HasOwn(o, key) \/ key \in ObjectPrototypeKeys

Get(o, key) ==
  IF HasOwn(o, key) THEN o.vals[IndexOf(o.keys, key)]
  ELSE IF o.t = "object" /\ key \in ObjectPrototypeKeys THEN Fn
  ELSE Undefined

SetKey(o, key, val) ==
  IF HasOwn(o, key)
  THEN Obj(o.keys, [o.vals EXCEPT ![IndexOf(o.keys, key)] = val])
  ELSE Obj(Append(o.keys, key), Append(o.vals, val))

(***************************************************************************)
(* Number and value formatting: `${x}` and JSON.stringify(x).              *)
(***************************************************************************)
NumStr(v) ==
  CASE v.k = "inf" -> "Infinity"
    [] v.k = "ninf" -> "-Infinity"
    [] v.k = "nan" -> "NaN"
    [] OTHER ->
         LET h == v.twice
             a == IF h < 0 THEN -h ELSE h
             sign == IF h < 0 THEN "-" ELSE ""
         IN IF a % 2 = 0 THEN sign \o ToString(a \div 2)
            ELSE sign \o ToString(a \div 2) \o ".5"

RECURSIVE JoinStr(_, _)
JoinStr(seq, sep) ==
  IF Len(seq) = 0 THEN ""
  ELSE IF Len(seq) = 1 THEN seq[1]
  ELSE seq[1] \o sep \o JoinStr(Tail(seq), sep)

RECURSIVE TemplateStr(_)
TemplateStr(v) ==
  CASE v.t = "string" -> v.s
    [] v.t = "number" -> NumStr(v)
    [] v.t = "boolean" -> IF v.b THEN "true" ELSE "false"
    [] v.t = "null" -> "null"
    [] v.t = "undefined" -> "undefined"
    [] v.t = "array" ->
         JoinStr([i \in 1..Len(v.items) |->
                    IF v.items[i].t \in {"null", "undefined"} THEN ""
                    ELSE TemplateStr(v.items[i])], ",")
    [] v.t = "object" -> "[object Object]"
    [] OTHER -> "function () { [native code] }"

RECURSIVE Stringify(_)
Stringify(v) ==
  CASE v.t = "string" -> "\"" \o v.s \o "\""
    [] v.t = "number" -> IF v.k = "finite" THEN NumStr(v) ELSE "null"
    [] v.t = "boolean" -> IF v.b THEN "true" ELSE "false"
    [] v.t = "null" -> "null"
    [] v.t = "array" ->
         "[" \o JoinStr([i \in 1..Len(v.items) |->
                           IF v.items[i].t \in {"undefined", "function"} THEN "null"
                           ELSE Stringify(v.items[i])], ",") \o "]"
    [] v.t = "object" ->
         LET kept == SelectSeq([i \in 1..Len(v.keys) |-> i],
                               LAMBDA i : v.vals[i].t \notin {"undefined", "function"})
         IN "{" \o JoinStr([j \in 1..Len(kept) |->
                              "\"" \o v.keys[kept[j]] \o "\":" \o Stringify(v.vals[kept[j]])],
                           ",") \o "}"
    [] OTHER -> "undefined"

(***************************************************************************)
(* JSON.parse over a token sequence.                                       *)
(***************************************************************************)
Punct(c) == [k |-> "punct", s |-> c]

Lit(s) == [k |-> "lit", s |-> s]

StrTok(s) == [k |-> "str", s |-> s]

NumTok(v) == [k |-> "num", v |-> v]

IsPunct(toks, i, c) == i <= Len(toks) /\ toks[i] = Punct(c)

ParseFail == [ok |-> FALSE, val |-> Undefined, next |-> 0]

ParseOk(v, n) == [ok |-> TRUE, val |-> v, next |-> n]

RECURSIVE ParseValue(_, _), ParseElements(_, _, _), ParseMembers(_, _, _)
ParseValue(toks, i) ==
  IF i > Len(toks) THEN ParseFail
  ELSE LET tok == toks[i] IN
    CASE tok.k = "lit" ->
           IF tok.s = "null" THEN ParseOk(Null, i + 1)
           ELSE IF tok.s = "true" THEN ParseOk(Bool(TRUE), i + 1)
           ELSE IF tok.s = "false" THEN ParseOk(Bool(FALSE), i + 1)
           ELSE ParseFail
      [] tok.k = "str" -> ParseOk(Str(tok.s), i + 1)
      [] tok.k = "num" -> ParseOk(tok.v, i + 1)
      [] tok = Punct("[") ->
           IF IsPunct(toks, i + 1, "]") THEN ParseOk(Arr(<<>>), i + 2)
           ELSE ParseElements(toks, i + 1, <<>>)
      [] tok = Punct("{") ->
           IF IsPunct(toks, i + 1, "}") THEN ParseOk(Obj(<<>>, <<>>), i + 2)
           ELSE ParseMembers(toks, i + 1, Obj(<<>>, <<>>))
      [] OTHER -> ParseFail

ParseElements(toks, i, acc) ==
  LET r == ParseValue(toks, i) IN
    IF ~r.ok THEN ParseFail
    ELSE IF IsPunct(toks, r.next, ",")
         THEN ParseElements(toks, r.next + 1, Append(acc, r.val))
    ELSE IF IsPunct(toks, r.next, "]")
         THEN ParseOk(Arr(Append(acc, r.val)), r.next + 1)
    ELSE ParseFail

ParseMembers(toks, i, acc) ==
  IF ~(i + 1 <= Len(toks) /\ toks[i].k = "str" /\ toks[i + 1] = Punct(":"))
  THEN ParseFail
  ELSE LET r == ParseValue(toks, i + 2) IN
    IF ~r.ok THEN ParseFail
    ELSE IF IsPunct(toks, r.next, ",")
         THEN ParseMembers(toks, r.next + 1, SetKey(acc, toks[i].s, r.val))
    ELSE IF IsPunct(toks, r.next, "}")
         THEN ParseOk(SetKey(acc, toks[i].s, r.val), r.next + 1)
    ELSE ParseFail

JSONParse(toks) ==
  LET r == ParseValue(toks, 1) IN
    IF r.ok /\ r.next = Len(toks) + 1
    THEN [ok |-> TRUE, val |-> r.val]
    ELSE [ok |-> FALSE, val |-> Undefined]

(***************************************************************************)
(* The text of a value, as tokens (what a user types for a schema).        *)
(***************************************************************************)
RECURSIVE ConcatAll(_, _)
ConcatAll(seqs, sep) ==
  IF Len(seqs) = 0 THEN <<>>
  ELSE IF Len(seqs) = 1 THEN seqs[1]
  ELSE seqs[1] \o sep \o ConcatAll(Tail(seqs), sep)

RECURSIVE Tokens(_)
Tokens(v) ==
  CASE v.t = "string" -> <<StrTok(v.s)>>
    [] v.t = "number" -> <<NumTok(v)>>
    [] v.t = "boolean" -> <<Lit(IF v.b THEN "true" ELSE "false")>>
    [] v.t = "array" ->
         <<Punct("[")>> \o ConcatAll([i \in 1..Len(v.items) |-> Tokens(v.items[i])],
                                     <<Punct(",")>>) \o <<Punct("]")>>
    [] v.t = "object" ->
         <<Punct("{")>> \o ConcatAll([i \in 1..Len(v.keys) |->
                                        <<StrTok(v.keys[i]), Punct(":")>> \o Tokens(v.vals[i])],
                                     <<Punct(",")>>) \o <<Punct("}")>>
    [] OTHER -> <<Lit("null")>>

(***************************************************************************)
(* Number coercion and comparison as `<`, `>`, `<=`, `>=` do them.          *)
(* Strings are taken as non-numeric text (the model has no numeric text).  *)
(***************************************************************************)
ToNumber(v) ==
  CASE v.t = "number" -> v
    [] v.t = "null" -> Num(0)
    [] v.t = "boolean" -> IF v.b THEN Num(2) ELSE Num(0)
    [] v.t = "string" -> IF v.s = "" THEN Num(0) ELSE NaN
    [] v.t = "array" -> IF Len(v.items) = 0 THEN Num(0) ELSE NaN
    [] OTHER -> NaN

NumLt(a, b) ==
  /\ a.k # "nan" /\ b.k # "nan"
  /\ \/ a.k = "ninf" /\ b.k # "ninf"
     \/ b.k = "inf" /\ a.k # "inf"
     \/ a.k = "finite" /\ b.k = "finite" /\ a.twice < b.twice

NumEq(a, b) == a.k # "nan" /\ b.k # "nan" /\ a.k = b.k /\ a.twice = b.twice

Lt(a, b) == NumLt(ToNumber(a), ToNumber(b))

Gt(a, b) == NumLt(ToNumber(b), ToNumber(a))

Le(a, b) == Lt(a, b) \/ NumEq(ToNumber(a), ToNumber(b))

Ge(a, b) == Gt(a, b) \/ NumEq(ToNumber(a), ToNumber(b))

StrLen(v) == Num(2 * Len(v.s))

ArrLen(v) == Num(2 * Len(v.items))

(***************************************************************************)
(* new RegExp(src) and regex.test(s), for the patterns and the strings of  *)
(* the model: which sources compile, and which strings each one matches.   *)
(***************************************************************************)
RegExpCompiles(src) == src \notin {"(", "[", "*"}

RegExpTest(src, s) ==
  CASE src = "^a" -> s \in {"abc", "a@b.c"}
    [] src = "c$" -> s \in {"abc", "a@b.c"}
    [] src = "^x$" -> s = "x"
    [] src = "b" -> s \in {"abc", "a@b.c"}
    [] OTHER -> src = s

(***************************************************************************)
(* The five format predicates of formatValidators, on the model's strings, *)
(* and the lookup formatValidators[schema.format], which also finds what   *)
(* the object literal inherits from Object.prototype.                      *)
(***************************************************************************)
FormatNames == {"email", "uri", "date", "date-time", "uuid"}

FormatAccepts(format, s) ==
  CASE format = "email" -> s \in {"a@b.c"}
    [] format = "uri" -> s \in {"http://a.b"}
    [] format = "date" -> s \in {"2024-01-31"}
    [] format = "date-time" -> s \in {"2024-01-31", "2024-01-31T10:00:00Z"}
    [] format = "uuid" -> s \in {"123e4567-e89b-12d3-a456-426614174000"}
    [] format = "hasOwnProperty" -> s \in FormatNames
    [] OTHER -> TRUE

FormatRegistered(format) == format \in FormatNames \cup ObjectPrototypeKeys

(***************************************************************************)
(* getJsonType, src/lib/json-parser.ts:454                                  *)
(***************************************************************************)
getJsonType(value) ==
  IF value.t = "null" THEN "null"
  ELSE IF IsArray(value) THEN "array"
  ELSE IF TypeOf(value) = "number"
       THEN (IF IsInteger(value) THEN "integer" ELSE "number")
  ELSE TypeOf(value)

Err(path, message, value) == [path |-> path, message |-> message, value |-> value]

PropPath(path, prop) == IF path # "" THEN path \o "." \o prop ELSE prop

ItemPath(path, index) ==
  IF path # "" THEN path \o "[" \o ToString(index) \o "]"
  ELSE "[" \o ToString(index) \o "]"

(***************************************************************************)
(* The type check (lines 125-186): the errors it appends and whether the   *)
(* function returns right after it.                                        *)
(***************************************************************************)
TypeCheck(d, schema, path) ==
  LET actualType == getJsonType(d)
      expectedType == Get(schema, "type")
      Fail(msg) == [errs |-> <<Err(path, msg, d)>>, ret |-> TRUE]
      Pass == [errs |-> <<>>, ret |-> FALSE]
  IN IF ~Truthy(expectedType) THEN Pass
     ELSE IF expectedType = Str("integer") THEN
       IF TypeOf(d) # "number"
       THEN Fail("Expected integer, got " \o actualType)
       ELSE IF ~IsInteger(d)
       THEN Fail("Expected integer, got decimal number " \o NumStr(d))
       ELSE IF ~IsFinite(d)
       THEN Fail("Expected finite integer, got " \o NumStr(d))
       ELSE Pass
     ELSE IF expectedType = Str("number") THEN
       IF TypeOf(d) # "number"
       THEN Fail("Expected number, got " \o actualType)
       ELSE IF ~IsFinite(d)
       THEN Fail("Expected finite number, got " \o NumStr(d))
       ELSE Pass
     ELSE IF Str(actualType) # expectedType
       THEN Fail("Expected type " \o TemplateStr(expectedType) \o ", got " \o actualType)
     ELSE Pass

(***************************************************************************)
(* The required check (lines 189-201).                                     *)
(***************************************************************************)
RequiredCheck(d, schema, path) ==
  LET required == Get(schema, "required") IN
    IF Truthy(required) /\ IsArray(required) /\ IsPlainObject(d)
    THEN LET missing == SelectSeq(required.items,
                                  LAMBDA prop : ~In(TemplateStr(prop), d))
         IN [i \in 1..Len(missing) |->
               Err(PropPath(path, TemplateStr(missing[i])),
                   "Missing required property: " \o TemplateStr(missing[i]),
                   Undefined)]
    ELSE <<>>

(***************************************************************************)
(* The additionalProperties check (lines 213-224); it sits inside the      *)
(* `if (schema.properties && ...)` block, see PropertiesCheck.             *)
(***************************************************************************)
ObjectKeys(v) ==
  CASE v.t = "object" -> v.keys
    [] v.t = "array" -> [i \in 1..Len(v.items) |-> ToString(i - 1)]
    [] OTHER -> <<>>

ObjectValues(v) ==
  CASE v.t = "object" -> v.vals
    [] v.t = "array" -> v.items
    [] OTHER -> <<>>

AdditionalPropertiesCheck(d, schema, path) ==
  IF Get(schema, "additionalProperties") = Bool(FALSE)
  THEN LET allowedProps == Range(ObjectKeys(Get(schema, "properties")))
           extra == SelectSeq(d.keys, LAMBDA prop : prop \notin allowedProps)
       IN [i \in 1..Len(extra) |->
             Err(PropPath(path, extra[i]),
                 "Additional property not allowed: " \o extra[i],
                 Get(d, extra[i]))]
  ELSE <<>>

(***************************************************************************)
(* Array length and uniqueness (lines 236-274).                            *)
(***************************************************************************)
RECURSIVE Duplicates(_, _, _)
Duplicates(items, i, seen) ==
  IF i > Len(items) THEN <<>>
  ELSE LET itemStr == Stringify(items[i]) IN
    IF itemStr \in seen
    THEN <<ToString(i - 1)>> \o Duplicates(items, i + 1, seen)
    ELSE Duplicates(items, i + 1, seen \cup {itemStr})

MinItemsCheck(d, schema, path) ==
  LET minItems == Get(schema, "minItems") IN
    IF Truthy(minItems) /\ Lt(ArrLen(d), minItems)
    THEN <<Err(path, "Array too short. Minimum items: " \o TemplateStr(minItems)
                       \o ", got " \o ToString(Len(d.items)), d)>>
    ELSE <<>>

MaxItemsCheck(d, schema, path) ==
  LET maxItems == Get(schema, "maxItems") IN
    IF Truthy(maxItems) /\ Gt(ArrLen(d), maxItems)
    THEN <<Err(path, "Array too long. Maximum items: " \o TemplateStr(maxItems)
                       \o ", got " \o ToString(Len(d.items)), d)>>
    ELSE <<>>

UniqueItemsCheck(d, schema, path) ==
  IF Get(schema, "uniqueItems") = Bool(TRUE)
  THEN LET duplicates == Duplicates(d.items, 1, {}) IN
    IF Len(duplicates) > 0
    THEN <<Err(path, "Array items must be unique. Duplicate items at indices: "
                       \o JoinStr(duplicates, ", "), d)>>
    ELSE <<>>
  ELSE <<>>

\* variant: duplicates reported before the length bounds
ArrayCheckUniqueFirst(d, schema, path) ==
  IF IsArray(d)
  THEN UniqueItemsCheck(d, schema, path) \o MinItemsCheck(d, schema, path)
       \o MaxItemsCheck(d, schema, path)
  ELSE <<>>

ArrayCheck(d, schema, path) ==
  IF IsArray(d)
  THEN MinItemsCheck(d, schema, path) \o MaxItemsCheck(d, schema, path)
       \o UniqueItemsCheck(d, schema, path)
  ELSE <<>>

(***************************************************************************)
(* String checks (lines 277-338).                                          *)
(***************************************************************************)
MinLengthCheck(d, schema, path) ==
  LET minLength == Get(schema, "minLength") IN
    IF minLength # Undefined /\ Lt(StrLen(d), minLength)
    THEN <<Err(path, "String too short. Minimum length: " \o TemplateStr(minLength)
                       \o ", got " \o ToString(Len(d.s)), d)>>
    ELSE <<>>

MaxLengthCheck(d, schema, path) ==
  LET maxLength == Get(schema, "maxLength") IN
    IF maxLength # Undefined /\ Gt(StrLen(d), maxLength)
    THEN <<Err(path, "String too long. Maximum length: " \o TemplateStr(maxLength)
                       \o ", got " \o ToString(Len(d.s)), d)>>
    ELSE <<>>

\* variant: the catch around new RegExp swallows the failure
PatternCheckSwallow(d, schema, path) ==
  LET pattern == Get(schema, "pattern") IN
    IF Truthy(pattern) /\ RegExpCompiles(TemplateStr(pattern))
       /\ ~RegExpTest(TemplateStr(pattern), d.s)
    THEN <<Err(path, "String does not match pattern: " \o TemplateStr(pattern), d)>>
    ELSE <<>>

PatternCheck(d, schema, path) ==
  LET pattern == Get(schema, "pattern") IN
    IF Truthy(pattern)
    THEN IF RegExpCompiles(TemplateStr(pattern))
         THEN IF ~RegExpTest(TemplateStr(pattern), d.s)
              THEN <<Err(path, "String does not match pattern: " \o TemplateStr(pattern), d)>>
              ELSE <<>>
         ELSE <<Err(path, "Invalid regex pattern: " \o TemplateStr(pattern), pattern)>>
    ELSE <<>>

FormatCheck(d, schema, path) ==
  LET format == Get(schema, "format") IN
    IF Truthy(format)
       /\ FormatRegistered(TemplateStr(format))
       /\ ~FormatAccepts(TemplateStr(format), d.s)
    THEN <<Err(path, "String does not match format: " \o TemplateStr(format), d)>>
    ELSE <<>>

\* variant: the string constraints as an else-if chain, first violation only
StringCheckExclusive(d, schema, path) ==
  IF TypeOf(d) = "string"
  THEN IF MinLengthCheck(d, schema, path) # <<>> THEN MinLengthCheck(d, schema, path)
       ELSE IF MaxLengthCheck(d, schema, path) # <<>> THEN MaxLengthCheck(d, schema, path)
       ELSE IF PatternCheck(d, schema, path) # <<>> THEN PatternCheck(d, schema, path)
       ELSE FormatCheck(d, schema, path)
  ELSE <<>>

StringCheck(d, schema, path) ==
  IF TypeOf(d) = "string"
  THEN MinLengthCheck(d, schema, path) \o MaxLengthCheck(d, schema, path)
       \o PatternCheck(d, schema, path) \o FormatCheck(d, schema, path)
  ELSE <<>>

(***************************************************************************)
(* Number checks (lines 341-384).  Numbers are exact halves here, so the   *)
(* quotient data / multipleOf is an integer iff the divisor divides.       *)
(***************************************************************************)
\* variant: the bound is tested for truthiness, as minItems and maxItems are
MinimumCheckTruthy(d, schema, path) ==
  LET minimum == Get(schema, "minimum") IN
    IF Truthy(minimum) /\ Lt(d, minimum)
    THEN <<Err(path, "Number too small. Minimum: " \o TemplateStr(minimum)
                       \o ", got " \o NumStr(d), d)>>
    ELSE <<>>

MinimumCheck(d, schema, path) ==
  LET minimum == Get(schema, "minimum") IN
    IF minimum # Undefined /\ Lt(d, minimum)
    THEN <<Err(path, "Number too small. Minimum: " \o TemplateStr(minimum)
                       \o ", got " \o NumStr(d), d)>>
    ELSE <<>>

MaximumCheck(d, schema, path) ==
  LET maximum == Get(schema, "maximum") IN
    IF maximum # Undefined /\ Gt(d, maximum)
    THEN <<Err(path, "Number too large. Maximum: " \o TemplateStr(maximum)
                       \o ", got " \o NumStr(d), d)>>
    ELSE <<>>

ExclusiveMinimumCheck(d, schema, path) ==
  LET exclusiveMinimum == Get(schema, "exclusiveMinimum") IN
    IF exclusiveMinimum # Undefined /\ Le(d, exclusiveMinimum)
    THEN <<Err(path, "Number must be greater than " \o TemplateStr(exclusiveMinimum)
                       \o ", got " \o NumStr(d), d)>>
    ELSE <<>>

ExclusiveMaximumCheck(d, schema, path) ==
  LET exclusiveMaximum == Get(schema, "exclusiveMaximum") IN
    IF exclusiveMaximum # Undefined /\ Ge(d, exclusiveMaximum)
    THEN <<Err(path, "Number must be less than " \o TemplateStr(exclusiveMaximum)
                       \o ", got " \o NumStr(d), d)>>
    ELSE <<>>

QuotientIsInteger(d, m) ==
  CASE m.k = "inf" -> TRUE
    [] m.k = "finite" -> d.twice % m.twice = 0
    [] OTHER -> FALSE

MultipleOfCheck(d, schema, path) ==
  LET multipleOf == Get(schema, "multipleOf") IN
    IF multipleOf # Undefined /\ Gt(multipleOf, Num(0))
       /\ ~QuotientIsInteger(d, ToNumber(multipleOf))
    THEN <<Err(path, "Number must be a multiple of " \o TemplateStr(multipleOf)
                       \o ", got " \o NumStr(d), d)>>
    ELSE <<>>

NumberCheck(d, schema, path) ==
  IF TypeOf(d) = "number" /\ IsFinite(d)
  THEN MinimumCheck(d, schema, path) \o MaximumCheck(d, schema, path)
       \o ExclusiveMinimumCheck(d, schema, path) \o ExclusiveMaximumCheck(d, schema, path)
       \o MultipleOfCheck(d, schema, path)
  ELSE <<>>

(***************************************************************************)
(* enum and const (lines 387-410): equality of the JSON.stringify texts.   *)
(***************************************************************************)
EnumCheck(d, schema, path) ==
  LET enumValues == Get(schema, "enum") IN
    IF Truthy(enumValues) /\ IsArray(enumValues)
    THEN LET dataStr == Stringify(d)
             isValid == \E i \in 1..Len(enumValues.items) :
                          Stringify(enumValues.items[i]) = dataStr
         IN IF ~isValid
            THEN <<Err(path, "Value must be one of: "
                         \o JoinStr([i \in 1..Len(enumValues.items) |->
                                       Stringify(enumValues.items[i])], ", ")
                         \o ". Got: " \o dataStr, d)>>
            ELSE <<>>
    ELSE <<>>

\* variant: compares with the const field whether or not the schema has one
ConstCheckUnguarded(d, schema, path) ==
  LET const == Get(schema, "const") IN
    IF Stringify(d) # Stringify(const)
    THEN <<Err(path, "Value must be exactly: " \o Stringify(const)
                       \o ". Got: " \o Stringify(d), d)>>
    ELSE <<>>

ConstCheck(d, schema, path) ==
  LET const == Get(schema, "const") IN
    IF const # Undefined /\ Stringify(d) # Stringify(const)
    THEN <<Err(path, "Value must be exactly: " \o Stringify(const)
                       \o ". Got: " \o Stringify(d), d)>>
    ELSE <<>>

(***************************************************************************)
(* validateAgainstSchema (lines 123-452).  The result is the shared error  *)
(* list after the call and whether the call threw (reading a field of a    *)
(* null schema throws a TypeError; errors pushed before it stay pushed).   *)
(***************************************************************************)
Done(errs) == [errors |-> errs, threw |-> FALSE]

Threw(errs) == [errors |-> errs, threw |-> TRUE]

\* variant: the type branch reports and falls through to the other checks
TypeReturnsNever(tc) == FALSE

TypeReturns(tc) == tc.ret

RECURSIVE validateAgainstSchema(_, _, _, _)
RECURSIVE PropertiesLoop(_, _, _, _, _)
RECURSIVE ItemsLoop(_, _, _, _, _)
RECURSIVE CountValid(_, _, _, _)
RECURSIVE AllOfLoop(_, _, _, _, _)

PropertiesLoop(d, properties, i, path, errs) ==
  IF i > Len(ObjectKeys(properties)) THEN Done(errs)
  ELSE LET prop == ObjectKeys(properties)[i]
           propSchema == ObjectValues(properties)[i]
       IN IF In(prop, d)
          THEN LET r == validateAgainstSchema(Get(d, prop), propSchema,
                                              PropPath(path, prop), errs)
               IN IF r.threw THEN r
                  ELSE PropertiesLoop(d, properties, i + 1, path, r.errors)
          ELSE PropertiesLoop(d, properties, i + 1, path, errs)

PropertiesCheck(d, schema, path, errs) ==
  IF Truthy(Get(schema, "properties")) /\ IsPlainObject(d)
  THEN LET r == PropertiesLoop(d, Get(schema, "properties"), 1, path, errs) IN
    IF r.threw THEN r
    ELSE Done(r.errors \o AdditionalPropertiesCheck(d, schema, path))
  ELSE Done(errs)

ItemsLoop(d, items, i, path, errs) ==
  IF i > Len(d.items) THEN Done(errs)
  ELSE LET r == validateAgainstSchema(d.items[i], items, ItemPath(path, i - 1), errs)
       IN IF r.threw THEN r ELSE ItemsLoop(d, items, i + 1, path, r.errors)

ItemsCheck(d, schema, path, errs) ==
  IF Truthy(Get(schema, "items")) /\ IsArray(d)
  THEN ItemsLoop(d, Get(schema, "items"), 1, path, errs)
  ELSE Done(errs)

CountValid(d, subSchemas, i, path) ==
  IF i > Len(subSchemas) THEN [n |-> 0, threw |-> FALSE]
  ELSE LET r == validateAgainstSchema(d, subSchemas[i], path, <<>>) IN
    IF r.threw THEN [n |-> 0, threw |-> TRUE]
    ELSE LET rest == CountValid(d, subSchemas, i + 1, path) IN
      [n |-> rest.n + (IF Len(r.errors) = 0 THEN 1 ELSE 0), threw |-> rest.threw]

\* variant: satisfied by one or more matching subschemas, as anyOf is
OneOfCheckAtLeastOne(d, schema, path, errs) ==
  LET oneOf == Get(schema, "oneOf") IN
    IF Truthy(oneOf) /\ IsArray(oneOf)
    THEN LET validSchemas == CountValid(d, oneOf.items, 1, path) IN
      IF validSchemas.threw THEN Threw(errs)
      ELSE IF validSchemas.n = 0
      THEN Done(Append(errs, Err(path, "Data must match exactly one schema. Matched "
                                         \o ToString(validSchemas.n) \o " schemas.", d)))
      ELSE Done(errs)
    ELSE Done(errs)

OneOfCheck(d, schema, path, errs) ==
  LET oneOf == Get(schema, "oneOf") IN
    IF Truthy(oneOf) /\ IsArray(oneOf)
    THEN LET validSchemas == CountValid(d, oneOf.items, 1, path) IN
      IF validSchemas.threw THEN Threw(errs)
      ELSE IF validSchemas.n # 1
      THEN Done(Append(errs, Err(path, "Data must match exactly one schema. Matched "
                                         \o ToString(validSchemas.n) \o " schemas.", d)))
      ELSE Done(errs)
    ELSE Done(errs)

AnyOfCheck(d, schema, path, errs) ==
  LET anyOf == Get(schema, "anyOf") IN
    IF Truthy(anyOf) /\ IsArray(anyOf)
    THEN LET validSchemas == CountValid(d, anyOf.items, 1, path) IN
      IF validSchemas.threw THEN Threw(errs)
      ELSE IF validSchemas.n = 0
      THEN Done(Append(errs, Err(path, "Data must match at least one schema. Matched 0 schemas.", d)))
      ELSE Done(errs)
    ELSE Done(errs)

AllOfLoop(d, subSchemas, i, path, errs) ==
  IF i > Len(subSchemas) THEN Done(errs)
  ELSE LET r == validateAgainstSchema(d, subSchemas[i], path, errs) IN
    IF r.threw THEN r ELSE AllOfLoop(d, subSchemas, i + 1, path, r.errors)

\* variant: subschemas judged in isolation with one summary error, as anyOf is
AllOfCheckIsolated(d, schema, path, errs) ==
  LET allOf == Get(schema, "allOf") IN
    IF Truthy(allOf) /\ IsArray(allOf)
    THEN LET validSchemas == CountValid(d, allOf.items, 1, path) IN
      IF validSchemas.threw THEN Threw(errs)
      ELSE IF validSchemas.n # Len(allOf.items)
      THEN Done(Append(errs, Err(path, "Data must match all schemas. Matched "
                                         \o ToString(validSchemas.n) \o " schemas.", d)))
      ELSE Done(errs)
    ELSE Done(errs)

AllOfCheck(d, schema, path, errs) ==
  LET allOf == Get(schema, "allOf") IN
    IF Truthy(allOf) /\ IsArray(allOf)
    THEN AllOfLoop(d, allOf.items, 1, path, errs)
    ELSE Done(errs)

validateAgainstSchema(d, schema, path, errs) ==
  IF schema.t \in {"null", "undefined"} THEN Threw(errs)
  ELSE LET tc == TypeCheck(d, schema, path) IN
    IF TypeReturns(tc) THEN Done(errs \o tc.errs)
    ELSE LET e1 == errs \o tc.errs \o RequiredCheck(d, schema, path)
             r2 == PropertiesCheck(d, schema, path, e1)
         IN IF r2.threw THEN r2
    ELSE LET r3 == ItemsCheck(d, schema, path, r2.errors) IN IF r3.threw THEN r3
    ELSE LET e4 == r3.errors \o ArrayCheck(d, schema, path) \o StringCheck(d, schema, path)
                     \o NumberCheck(d, schema, path) \o EnumCheck(d, schema, path)
                     \o ConstCheck(d, schema, path)
             r5 == OneOfCheck(d, schema, path, e4)
         IN IF r5.threw THEN r5
    ELSE LET r6 == AnyOfCheck(d, schema, path, r5.errors) IN IF r6.threw THEN r6
    ELSE AllOfCheck(d, schema, path, r6.errors)

(***************************************************************************)
(* validateJsonSchema (lines 106-121): the try block covers JSON.parse and *)
(* the whole recursive validation; the catch appends the schema error to   *)
(* whatever the list holds by then.                                        *)
(***************************************************************************)
SchemaError(text) == Err("schema", "Invalid schema format", RawText(text))

\* variant: the catch block is empty
CatchSilent(r, text) ==
  IF r.threw THEN Done(r.errors) ELSE r

Catch(r, text) ==
  IF r.threw THEN Done(Append(r.errors, SchemaError(text))) ELSE r

\* variant: the try block covers JSON.parse only
validateJsonSchemaParseOnly(d, text) ==
  LET parsed == JSONParse(text) IN
    IF ~parsed.ok THEN Catch(Threw(<<>>), text)
    ELSE validateAgainstSchema(d, parsed.val, "", <<>>)

validateJsonSchema(d, text) ==
  LET parsed == JSONParse(text)
      body == IF ~parsed.ok THEN Threw(<<>>)
              ELSE validateAgainstSchema(d, parsed.val, "", <<>>)
  IN Catch(body, text)

(***************************************************************************)
(* Inputs: the data values and the schema texts the model runs on.         *)
(***************************************************************************)
EmptyObj == Obj(<<>>, <<>>)

ObjAB == Obj(<<"a", "b">>, <<Num(2), Num(4)>>)

ObjBA == Obj(<<"b", "a">>, <<Num(4), Num(2)>>)

SeqsUpTo(S, n) == UNION {[1..m -> S] : m \in 0..n}

Scalars ==
  {Null, Bool(TRUE), Num(-2), Num(0), Num(10), Num(11), Infinity, NegInfinity, NaN,
   Str("x"), Str("abc"), Str("a@b.c")}

Objects ==
  {EmptyObj, ObjAB, ObjBA, Obj(<<"a">>, <<Num(2)>>), Obj(<<"a">>, <<Str("x")>>),
   Obj(<<"c">>, <<Null>>), Obj(<<"a">>, <<Obj(<<"b">>, <<Str("abc")>>)>>),
   Obj(<<"a">>, <<Obj(<<"b">>, <<Arr(<<Num(2), Str("x")>>)>>)>>)}

ArrayElems == {Num(2), Str("x"), ObjAB, ObjBA}

Arrays == {Arr(items) : items \in SeqsUpTo(ArrayElems, MaxArrayLen)}

DataValues == Scalars \cup Objects \cup Arrays

Bounds == {Undefined} \cup {Num(2 * n) : n \in 0..MaxBound}

\* an object schema from (keyword, value) pairs, leaving out absent keywords
Schema(pairs) ==
  LET present == SelectSeq(pairs, LAMBDA kv : kv[2] # Undefined)
  IN Obj([i \in 1..Len(present) |-> present[i][1]],
         [i \in 1..Len(present) |-> present[i][2]])

Never == Schema(<<<<"const", Str("never")>>>>)

TypeNames == {"integer", "number", "string", "object", "array", "boolean", "null"}

\* a node on which every later check would report something
Loaded(ty) ==
  Schema(<<<<"type", ty>>,
           <<"required", Arr(<<Str("zz")>>)>>,
           <<"properties", Schema(<<<<"a", Never>>>>)>>,
           <<"additionalProperties", Bool(FALSE)>>,
           <<"items", Never>>,
           <<"minItems", Num(8)>>,
           <<"minLength", Num(20)>>,
           <<"minimum", Num(200)>>,
           <<"enum", Arr(<<>>)>>,
           <<"const", Str("never")>>,
           <<"oneOf", Arr(<<>>)>>,
           <<"anyOf", Arr(<<>>)>>,
           <<"allOf", Arr(<<Never>>)>>>>)

TypeSchemas ==
  {Schema(<<<<"type", Str(ty)>>>>) : ty \in TypeNames}
    \cup {Loaded(Str(ty)) : ty \in TypeNames}
    \cup {Loaded(Undefined)}

RequiredLists ==
  {<<>>, <<"a">>, <<"b">>, <<"a", "b">>, <<"toString">>, <<"b", "toString">>, <<"b", "b">>}

RequiredSchemas ==
  {Schema(<<<<"type", ty>>,
            <<"required", Arr([i \in 1..Len(R) |-> Str(R[i])])>>>>) :
     ty \in {Undefined, Str("object")}, R \in RequiredLists}

PropertyMaps ==
  {Undefined, EmptyObj,
   Schema(<<<<"a", EmptyObj>>>>),
   Schema(<<<<"a", Schema(<<<<"type", Str("string")>>>>)>>>>),
   Schema(<<<<"a", EmptyObj>>, <<"b", Schema(<<<<"type", Str("integer")>>>>)>>>>),
   Schema(<<<<"toString", Schema(<<<<"type", Str("string")>>>>)>>>>)}

PropertySchemas ==
  {Schema(<<<<"properties", ps>>, <<"additionalProperties", ap>>>>) :
     ps \in PropertyMaps, ap \in {Undefined, Bool(FALSE), Bool(TRUE)}}

ArraySchemas ==
  {Schema(<<<<"minItems", lo>>, <<"maxItems", hi>>, <<"uniqueItems", u>>>>) :
     lo \in Bounds, hi \in Bounds, u \in {Undefined, Bool(TRUE)}}
    \cup {Schema(<<<<"items", it>>>>) :
            it \in {Schema(<<<<"type", Str("integer")>>>>),
                    Schema(<<<<"required", Arr(<<Str("c")>>)>>>>)}}

EqualitySchemas ==
  {Schema(<<<<"const", c>>>>) : c \in {ObjAB, Str("x"), Num(10), Null, Arr(<<ObjAB>>)}}
    \cup {Schema(<<<<"enum", Arr(e)>>>>) :
            e \in {<<ObjAB, Str("x")>>, <<Num(10), Num(11)>>, <<>>}}

StringSchemas ==
  {Schema(<<<<"type", ty>>, <<"minLength", lo>>, <<"maxLength", hi>>,
            <<"pattern", pt>>, <<"format", fm>>>>) :
     ty \in {Undefined, Str("string")}, lo \in Bounds, hi \in Bounds,
     pt \in {Undefined, Str("^a"), Str("(")},
     fm \in {Undefined, Str("email"), Str("nickname")}}
    \cup {Schema(<<<<"minLength", Num(4)>>, <<"maxLength", Num(10)>>>>),
          Schema(<<<<"format", Str("hasOwnProperty")>>>>)}

OneOfXY ==
  Arr(<<Schema(<<<<"const", Str("x")>>>>), Schema(<<<<"type", Str("string")>>>>)>>)

BadPatternSchemas ==
  {Schema(<<<<"pattern", Str("(")>>, <<"format", fm>>, <<"enum", en>>, <<"const", co>>,
            <<"oneOf", oo>>, <<"anyOf", ao>>, <<"allOf", al>>>>) :
     fm \in {Undefined, Str("email")},
     en \in {Undefined, Arr(<<Str("abc")>>)},
     co \in {Undefined, Str("abc")},
     oo \in {Undefined, OneOfXY},
     ao \in {Undefined, Arr(<<Never>>)},
     al \in {Undefined, Arr(<<Schema(<<<<"maxLength", Num(2)>>>>)>>)}}

\* schemas with null or other non-object values where a schema is expected
OddSchemas ==
  {Null, Num(10), Str("abc"), Bool(TRUE), Arr(<<>>),
   Schema(<<<<"properties", Schema(<<<<"a", Null>>>>)>>>>),
   Schema(<<<<"required", Arr(<<Str("zz")>>)>>,
            <<"properties", Schema(<<<<"c", Null>>>>)>>>>),
   Schema(<<<<"items", Null>>>>),
   Schema(<<<<"items", Num(10)>>>>),
   Schema(<<<<"oneOf", Arr(<<Null>>)>>>>),
   Schema(<<<<"anyOf", Arr(<<EmptyObj, Null>>)>>>>),
   Schema(<<<<"allOf", Arr(<<Never, Null>>)>>>>),
   Schema(<<<<"properties", Schema(<<<<"a", Schema(<<<<"allOf", Arr(<<Null>>)>>>>)>>>>)>>>>)}

NumericBounds == {Undefined, Num(0), Num(10)}

NumberSchemas ==
  {Schema(<<<<"minimum", lo>>, <<"maximum", hi>>,
            <<"exclusiveMinimum", xlo>>, <<"exclusiveMaximum", xhi>>>>) :
     lo \in NumericBounds, hi \in NumericBounds,
     xlo \in NumericBounds, xhi \in NumericBounds}
    \cup {Schema(<<<<"type", Str("number")>>, <<"minimum", Num(11)>>,
                   <<"multipleOf", m>>>>) : m \in {Num(4), Num(1), Num(0)}}

SubSchemas ==
  {EmptyObj, Never, Schema(<<<<"type", Str("string")>>>>),
   Schema(<<<<"const", Str("x")>>>>), Schema(<<<<"minLength", Num(4)>>>>)}

CombinatorSchemas ==
  {Schema(<<<<kw, Arr(subs)>>>>) :
     kw \in {"oneOf", "anyOf", "allOf"}, subs \in SeqsUpTo(SubSchemas, MaxSubSchemas)}

\* properties and items nested in one another
NestedSchemas ==
  {Schema(<<<<"properties",
              Schema(<<<<"a", Schema(<<<<"properties",
                 Schema(<<<<"b", Schema(<<<<"items", leaf>>>>)>>>>)>>>>)>>>>)>>>>) :
     leaf \in {Schema(<<<<"type", Str("integer")>>>>), Never}}
    \cup {Schema(<<<<"items", Schema(<<<<"properties",
                        Schema(<<<<"a", Schema(<<<<"type", Str("string")>>>>)>>,
                                 <<"b", Never>>>>)>>>>)>>>>),
          Schema(<<<<"properties",
                    Schema(<<<<"a", Schema(<<<<"properties",
                       Schema(<<<<"b", Schema(<<<<"type", Str("integer")>>>>)>>>>)>>>>)>>>>)>>>>)}

\* keywords the validator never reads
UnrecognizedSchemas ==
  {Schema(<<<<"title", Str("x")>>>>),
   Schema(<<<<"minlength", Num(10)>>>>),
   Schema(<<<<"Type", Str("string")>>>>),
   Schema(<<<<"not", EmptyObj>>>>),
   Schema(<<<<"description", Str("abc")>>, <<"default", Null>>,
            <<"patternProperties", Schema(<<<<"^a", Never>>>>)>>>>)}

SchemaValues ==
  TypeSchemas \cup RequiredSchemas \cup PropertySchemas \cup ArraySchemas
    \cup EqualitySchemas \cup StringSchemas \cup BadPatternSchemas \cup OddSchemas
    \cup NumberSchemas \cup CombinatorSchemas \cup NestedSchemas
    \cup UnrecognizedSchemas

\* texts that are not JSON: cut short, with a trailing token, or not quoted
MalformedTexts ==
  {<<>>, <<Punct("{")>>, <<Lit("undefined")>>,
   <<Punct("{"), Lit("type"), Punct(":"), Lit("string"), Punct("}")>>,
   <<Punct("{"), StrTok("type"), Punct(":"), StrTok("string"), Punct(","), Punct("}")>>,
   <<Punct("["), NumTok(Num(2)), Punct(","), Punct("]")>>,
   <<Punct("{"), StrTok("type"), StrTok("string"), Punct("}")>>}
    \cup {SubSeq(Tokens(s), 1, Len(Tokens(s)) - 1) : s \in TypeSchemas \cup OddSchemas}
    \cup {Tokens(s) \o <<Punct("}")>> : s \in RequiredSchemas}

SchemaTexts == {Tokens(s) : s \in SchemaValues} \cup MalformedTexts

(***************************************************************************)
(* The state machine: a caller holds a data value and a schema text and    *)
(* calls validateJsonSchema once.                                          *)
(***************************************************************************)
\* no validation is going on
ValidatorOff ==
  /\ data = Null
  /\ schemaString = <<>>
  /\ errors = <<>>
  /\ thrown = FALSE
  /\ pc = "off"

\* no call of performSearch is going on
LoopOff ==
  /\ term = ""
  /\ stack = <<>>
  /\ visited = {}
  /\ results = <<>>
  /\ spc = "off"
  /\ pushes = <<>>
  /\ iterations = 0

\* the viewer as it is constructed (part_003 lines 17-31)
ViewerOff ==
  /\ jsonString = <<>>
  /\ originalData = Null
  /\ isEdited = FALSE
  /\ isLoading = FALSE
  /\ error = Null
  /\ parseMetrics = Null
  /\ validationErrors = <<>>
  /\ jsonSchema = <<>>
  /\ localStorage = Null
  /\ parsePromise = [pending |-> FALSE]
  /\ editing = [on |-> FALSE]

\* the search bar as it is constructed (part_003 lines 20-22)
SearchBarOff ==
  /\ searchTermState = ""
  /\ searchResults = <<>>
  /\ currentSearchIndex = -1
  /\ timers = {}
  /\ searchTimeoutRef = 0

\* no search is going on
SearchOff ==
  /\ jsonData = [root |-> Null, heap |-> <<>>]
  /\ term = ""
  /\ caseSensitive = FALSE
  /\ stack = <<>>
  /\ visited = {}
  /\ results = <<>>
  /\ spc = "off"
  /\ pushes = <<>>
  /\ iterations = 0

Init ==
  /\ data \in DataValues
  /\ schemaString \in SchemaTexts
  /\ errors = <<>>
  /\ thrown = FALSE
  /\ pc = "ready"
  /\ SearchOff
  /\ ViewerOff
  /\ SearchBarOff

Validate ==
  /\ pc = "ready"
  /\ LET r == validateJsonSchema(data, schemaString) IN
       /\ errors' = r.errors
       /\ thrown' = r.threw
  /\ pc' = "done"
  /\ UNCHANGED <<data, schemaString>>
  /\ UNCHANGED <<searchVars, viewerVars, searchBarVars>>

Next == Validate

Spec == Init /\ [][Next]_vars

(***************************************************************************)
(* performSearch (src/unnamed/part_002, lines 41-94).                      *)
(*                                                                         *)
(* A container is held by reference: Ref(id) names the object or array     *)
(* jsonData.heap[id], whose children are primitives or references.         *)
(***************************************************************************)
Ref(id) == [t |-> "ref", id |-> id]

Graph(root, heap) == [root |-> root, heap |-> heap]

\* typeof value === "object" && value !== null
IsContainer(value) == value.t = "ref"

String(value) == TemplateStr(value)

(***************************************************************************)
(* Text is compared character by character: Chars gives the characters of  *)
(* a string of the model.                                                  *)
(***************************************************************************)
Words ==
  {<<>>, <<"a">>, <<"b">>, <<"k">>, <<"l">>, <<"A">>, <<"K">>, <<"V">>, <<"5">>,
   <<"a", "b">>, <<"a", "c">>, <<"h", "e", "l", "l", "o">>,
   <<"H", "e", "l", "l", "o">>, <<"s", "e", "l", "f">>,
   <<"n", "u", "l", "l">>, <<"t", "r", "u", "e">>}

Chars(s) == CHOOSE w \in Words : JoinStr(w, "") = s

LowerChar(c) ==
  CASE c = "A" -> "a"
    [] c = "H" -> "h"
    [] c = "K" -> "k"
    [] c = "V" -> "v"
    [] OTHER -> c

toLowerCase(w) == [i \in 1..Len(w) |-> LowerChar(w[i])]

\* variant: the whole text must equal the term
includesWhole(text, sub) == text = sub

includes(text, sub) ==
  \E i \in 1..(Len(text) - Len(sub) + 1) : SubSeq(text, i, i + Len(sub) - 1) = sub

\* sensitive ? text : text.toLowerCase()
FoldCase(text, sensitive) == IF sensitive THEN Chars(text) ELSE toLowerCase(Chars(text))

\* caseSensitive ? text : text.toLowerCase() (lines 46, 64, 79)
Folded(text) == FoldCase(text, caseSensitive)

searchTerm == Folded(term)

\* variant: positions counted from 1
SearchResultOneBased(path, type, text, rs) ==
  [path |-> JoinStr(path, "."), type |-> type, text |-> text, position |-> Len(rs) + 1]

SearchResult(path, type, text, rs) ==
  [path |-> JoinStr(path, "."), type |-> type, text |-> text, position |-> Len(rs)]

\* variant: no instance is ever taken as seen
AlreadyVisitedNever(value, seen) == FALSE

AlreadyVisited(value, seen) == value.id \in seen

\* value.forEach((item, index) => stack.push(...)) (lines 58-60)
ArrayEntries(node, currentPath) ==
  [i \in 1..Len(node.items) |->
     [value |-> node.items[i], path |-> Append(currentPath, ToString(i - 1))]]

\* the stack.push of the Object.entries loop (line 74)
ObjectEntries(node, currentPath) ==
  [i \in 1..Len(node.keys) |->
     [value |-> node.vals[i], path |-> Append(currentPath, node.keys[i])]]

\* the results.push of the Object.entries loop (lines 62-72)
RECURSIVE KeyResults(_, _, _, _)
KeyResults(node, currentPath, i, rs) ==
  IF i > Len(node.keys) THEN rs
  ELSE LET key == node.keys[i]
           keyToSearch == Folded(key)
       IN KeyResults(node, currentPath, i + 1,
            IF includes(keyToSearch, searchTerm)
            THEN Append(rs, SearchResult(Append(currentPath, key), "key", key, rs))
            ELSE rs)

\* lines 79-87
ValueResult(value, currentPath, rs) ==
  LET valueStr == Folded(String(value)) IN
    IF includes(valueStr, searchTerm)
    THEN Append(rs, SearchResult(currentPath, "value", String(value), rs))
    ELSE rs

\* lines 42-48: an empty term returns at once (line 44)
SearchCall ==
  /\ spc = "idle"
  /\ results' = <<>>
  /\ IF term = ""
     THEN spc' = "returned" /\ UNCHANGED <<stack, visited>>
     ELSE /\ spc' = "loop"
          /\ visited' = {}
          /\ stack' = <<[value |-> jsonData.root, path |-> <<>>]>>
  /\ UNCHANGED <<jsonData, term, caseSensitive, pushes, iterations>>
  /\ UNCHANGED <<validatorVars, viewerVars, searchBarVars>>

\* one iteration of the while loop (lines 50-89)
SearchIterate ==
  /\ spc = "loop" /\ stack # <<>>
  /\ LET value == stack[Len(stack)].value
         currentPath == stack[Len(stack)].path
         popped == SubSeq(stack, 1, Len(stack) - 1)
     IN IF IsContainer(value)
        THEN IF AlreadyVisited(value, visited)
             THEN stack' = popped /\ UNCHANGED <<visited, results, pushes>>
             ELSE LET node == jsonData.heap[value.id] IN
                    /\ visited' = visited \cup {value.id}
                    /\ pushes' = [pushes EXCEPT ![value.id] = @ + 1]
                    /\ IF node.t = "array"
                       THEN /\ stack' = popped \o ArrayEntries(node, currentPath)
                            /\ UNCHANGED results
                       ELSE /\ stack' = popped \o ObjectEntries(node, currentPath)
                            /\ results' = KeyResults(node, currentPath, 1, results)
        ELSE /\ stack' = popped
             /\ results' = ValueResult(value, currentPath, results)
             /\ UNCHANGED <<visited, pushes>>
  /\ iterations' = iterations + 1
  /\ UNCHANGED <<jsonData, term, caseSensitive, spc>>
  /\ UNCHANGED <<validatorVars, viewerVars, searchBarVars>>

\* the loop ends and the list is returned (lines 50, 91)
SearchReturn ==
  /\ spc = "loop" /\ stack = <<>>
  /\ spc' = "returned"
  /\ UNCHANGED <<jsonData, term, caseSensitive, stack, visited, results, pushes, iterations>>
  /\ UNCHANGED <<validatorVars, viewerVars, searchBarVars>>

(***************************************************************************)
(* The values searched and the terms.                                      *)
(***************************************************************************)
EmptyObject == Graph(Ref(1), <<EmptyObj>>)

NestedHello ==
  Graph(Ref(1), <<Obj(<<"a">>, <<Ref(2)>>), Obj(<<"b">>, <<Str("hello")>>)>>)

UpperKV == Graph(Ref(1), <<Obj(<<"K">>, <<Str("V")>>)>>)

\* {"ab": {"K": "ab", "b": ["l", 5, null]}, "ac": "Hello", "a": [true]}
Mixed ==
  Graph(Ref(1), <<Obj(<<"ab", "ac", "a">>, <<Ref(2), Str("Hello"), Ref(4)>>),
                  Obj(<<"K", "b">>, <<Str("ab"), Ref(3)>>),
                  Arr(<<Str("l"), Num(10), Null>>),
                  Arr(<<Bool(TRUE)>>)>>)

\* one object held twice by an array
Shared == Graph(Ref(1), <<Arr(<<Ref(2), Ref(2)>>), Obj(<<"ab">>, <<Str("ac")>>)>>)

\* an object that holds itself
SelfCycle == Graph(Ref(1), <<Obj(<<"a", "self">>, <<Str("ab"), Ref(1)>>)>>)

\* an array and an object that hold each other
TwoCycle ==
  Graph(Ref(1), <<Arr(<<Ref(2), Str("ab")>>), Obj(<<"K">>, <<Ref(1)>>)>>)

SearchPrimitives == {Str("ab"), Str("ac"), Num(10), Null}

KeyPool == <<"ab", "K", "ac", "b", "a">>

FlatGraphs ==
  {Graph(Ref(1), <<Arr(items)>>) : items \in SeqsUpTo(SearchPrimitives, MaxWidth)}
    \cup {Graph(Ref(1), <<Obj(SubSeq(KeyPool, 1, Len(vals)), vals)>>) :
            vals \in SeqsUpTo(SearchPrimitives, MaxWidth)}

SearchGraphs ==
  {EmptyObject, NestedHello, UpperKV, Mixed, Shared, SelfCycle, TwoCycle}
    \cup {Graph(v, <<>>) : v \in {Str("hello"), Null, Num(10), Bool(TRUE)}}
    \cup FlatGraphs

SearchTerms == {"", "k", "hello", "a", "A", "ab", "l", "5"}

SearchInit ==
  /\ jsonData \in SearchGraphs
  /\ term \in SearchTerms
  /\ caseSensitive \in BOOLEAN
  /\ stack = <<>>
  /\ visited = {}
  /\ results = <<>>
  /\ spc = "idle"
  /\ pushes = [id \in 1..Len(jsonData.heap) |-> 0]
  /\ iterations = 0
  /\ ValidatorOff
  /\ ViewerOff
  /\ SearchBarOff

SearchNext == SearchCall \/ SearchIterate \/ SearchReturn

SearchSpec == SearchInit /\ [][SearchNext]_vars

(***************************************************************************)
(* The tree view (src/components/json-tree-node.tsx).  A node's path is    *)
(* the sequence of keys and indices from the root; path.join(".") turns an *)
(* index into its decimal text, so indices are kept as that text.          *)
(***************************************************************************)
\* lines 52-55
hasValidationError(path, nodeErrors) ==
  LET currentPath == JoinStr(path, ".") IN
    \E i \in 1..Len(nodeErrors) : nodeErrors[i].path = currentPath

\* the nodes JsonTreeNode renders below and including d (lines 346-388)
RECURSIVE TreeNodes(_, _)
TreeNodes(d, path) ==
  {[path |-> path, data |-> d]}
    \cup (IF d.t = "array"
          THEN UNION {TreeNodes(d.items[i], Append(path, ToString(i - 1))) :
                        i \in 1..Len(d.items)}
          ELSE IF d.t = "object"
          THEN UNION {TreeNodes(d.vals[i], Append(path, d.keys[i])) :
                        i \in 1..Len(d.keys)}
          ELSE {})

(***************************************************************************)
(* The metrics pass (src/lib/json-parser.ts, lines 11-98).  Each walk is   *)
(* the loop over its explicit stack, run to its end.                       *)
(***************************************************************************)
\* typeof current === "object" && current !== null
IsObjectLike(current) == current.t \in {"object", "array"}

RECURSIVE countNodesLoop(_, _)
countNodesLoop(stk, count) ==
  IF stk = <<>> THEN count
  ELSE LET current == stk[Len(stk)]
           popped == SubSeq(stk, 1, Len(stk) - 1)
       IN countNodesLoop(IF IsObjectLike(current) THEN popped \o ObjectValues(current)
                         ELSE popped,
                         count + 1)

\* variant: the root is not counted
countNodesBelowRoot(d) == countNodesLoop(<<d>>, -1)

countNodes(d) == countNodesLoop(<<d>>, 0)

Max(a, b) == IF a >= b THEN a ELSE b

RECURSIVE getMaxDepthLoop(_, _)
getMaxDepthLoop(stk, maxDepth) ==
  IF stk = <<>> THEN maxDepth
  ELSE LET current == stk[Len(stk)].data
           depth == stk[Len(stk)].depth
           popped == SubSeq(stk, 1, Len(stk) - 1)
           children == ObjectValues(current)
       IN getMaxDepthLoop(
            IF IsObjectLike(current)
            THEN popped \o [i \in 1..Len(children) |->
                              [data |-> children[i], depth |-> depth + 1]]
            ELSE popped,
            Max(maxDepth, depth))

getMaxDepth(d) == getMaxDepthLoop(<<[data |-> d, depth |-> 0]>>, 0)

\* distribution[type] = (distribution[type] || 0) + 1
RECURSIVE getTypeDistributionLoop(_, _)
getTypeDistributionLoop(stk, distribution) ==
  IF stk = <<>> THEN distribution
  ELSE LET current == stk[Len(stk)]
           popped == SubSeq(stk, 1, Len(stk) - 1)
           type == current.t
       IN getTypeDistributionLoop(
            IF IsObjectLike(current) THEN popped \o ObjectValues(current) ELSE popped,
            IF type \in DOMAIN distribution
            THEN [distribution EXCEPT ![type] = @ + 1]
            ELSE distribution @@ (type :> 1))

getTypeDistribution(d) == getTypeDistributionLoop(<<d>>, <<>>)

\* the message of the SyntaxError that JSON.parse throws
SyntaxErrorMessage == "Unexpected token in JSON"

(***************************************************************************)
(* parseJsonWithMetrics (lines 11-36): what the promise settles with.  The *)
(* four measurements of time and size are left out of the metrics record.  *)
(***************************************************************************)
parseJsonWithMetrics(text) ==
  LET parsed == JSONParse(text) IN
    IF parsed.ok
    THEN [resolved |-> TRUE,
          data |-> parsed.val,
          metrics |-> [nodeCount |-> countNodes(parsed.val),
                       maxDepth |-> getMaxDepth(parsed.val),
                       typeDistribution |-> getTypeDistribution(parsed.val)]]
    ELSE [resolved |-> FALSE, message |-> SyntaxErrorMessage]

(***************************************************************************)
(* The viewer (src/unnamed/part_003) and the editing of a tree node        *)
(* (src/components/json-tree-node.tsx, lines 170-201).                     *)
(***************************************************************************)
\* JSON.parse(JSON.stringify(v)): a number that is not finite comes back as null
RECURSIVE JsonRoundTrip(_)
JsonRoundTrip(v) ==
  CASE v.t = "number" -> IF IsFinite(v) THEN v ELSE Null
    [] v.t = "array" -> Arr([i \in 1..Len(v.items) |-> JsonRoundTrip(v.items[i])])
    [] v.t = "object" -> Obj(v.keys, [i \in 1..Len(v.vals) |-> JsonRoundTrip(v.vals[i])])
    [] OTHER -> v

\* value.trim() is empty
IsBlank(text) == text = <<>>

\* the position of the child that current[segment] names, 0 when there is none
ChildIndex(current, segment) ==
  IF current.t = "object" /\ segment \in Range(current.keys)
  THEN IndexOf(current.keys, segment)
  ELSE IF current.t = "array"
            /\ \E i \in 1..Len(current.items) : ToString(i - 1) = segment
  THEN CHOOSE i \in 1..Len(current.items) : ToString(i - 1) = segment
  ELSE 0

\* the walk of lines 173-177 on the copy; undefined when a step leaves the value
RECURSIVE AssignAtPath(_, _, _)
AssignAtPath(current, path, value) ==
  LET i == ChildIndex(current, path[1]) IN
    IF i = 0 THEN Undefined
    ELSE LET child == ObjectValues(current)[i]
             newChild == IF Len(path) = 1 THEN value
                         ELSE AssignAtPath(child, Tail(path), value)
         IN IF newChild = Undefined THEN Undefined
            ELSE IF current.t = "array"
            THEN Arr([current.items EXCEPT ![i] = newChild])
            ELSE Obj(current.keys, [current.vals EXCEPT ![i] = newChild])

\* the node at path, undefined when there is none
RECURSIVE NodeAt(_, _)
NodeAt(v, path) ==
  IF path = <<>> THEN v
  ELSE LET i == ChildIndex(v, path[1]) IN
    IF i = 0 THEN Undefined ELSE NodeAt(ObjectValues(v)[i], Tail(path))

\* what a user may type into the edit field
EditTexts == {"3", "Infinity", "ab", "\"ab\"", "TRUE", "null"}

\* Number(editValue)
NumberOf(text) ==
  CASE text = "3" -> Num(6)
    [] text = "Infinity" -> Infinity
    [] OTHER -> NaN

\* editValue.replace(/^"(.*)"$/, "$1")
StripQuotes(text) == IF text = "\"ab\"" THEN "ab" ELSE text

\* editValue.toLowerCase()
LowerText(text) == IF text = "TRUE" THEN "true" ELSE text

\* the try block of saveEditedValue up to the call of updateValue (lines 180-194)
ParseEditValue(type, editValue) ==
  CASE type = "string" -> [ok |-> TRUE, value |-> Str(StripQuotes(editValue))]
    [] type = "number" ->
         IF NumberOf(editValue) = NaN THEN [ok |-> FALSE]
         ELSE [ok |-> TRUE, value |-> NumberOf(editValue)]
    [] type = "boolean" ->
         IF LowerText(editValue) = "true" THEN [ok |-> TRUE, value |-> Bool(TRUE)]
         ELSE IF LowerText(editValue) = "false" THEN [ok |-> TRUE, value |-> Bool(FALSE)]
         ELSE [ok |-> FALSE]
    [] type = "null" ->
         IF LowerText(editValue) = "null" THEN [ok |-> TRUE, value |-> Null]
         ELSE [ok |-> FALSE]
    [] OTHER -> [ok |-> TRUE, value |-> Undefined]

\* the input screen is shown (part_003 lines 344-348)
InputScreen == ~Truthy(jsonData) /\ ~isLoading

\* the tree and the schema panel are shown (part_003 lines 332, 344)
DataScreen == Truthy(jsonData)

\* part_003 lines 57-84: a file has been read; the button is in the header bar
handleFileUpload(content) ==
  /\ jsonString' = content
  /\ error' = Null
  /\ UNCHANGED <<jsonData, originalData, parseMetrics, isEdited, isLoading,
                 validationErrors, jsonSchema, localStorage, parsePromise, editing>>
  /\ UNCHANGED <<caseSensitive, term, stack, visited, results, spc, pushes, iterations>>
  /\ UNCHANGED <<validatorVars, searchBarVars>>

\* part_003 lines 87-95
handleJsonInput(value) ==
  /\ InputScreen
  /\ jsonString' = value
  /\ error' = Null
  /\ IF IsBlank(value)
     THEN jsonData' = Null /\ originalData' = Null /\ parseMetrics' = Null
     ELSE UNCHANGED <<jsonData, originalData, parseMetrics>>
  /\ UNCHANGED <<isEdited, isLoading, validationErrors, jsonSchema, localStorage,
                 parsePromise, editing>>
  /\ UNCHANGED <<caseSensitive, term, stack, visited, results, spc, pushes, iterations>>
  /\ UNCHANGED <<validatorVars, searchBarVars>>

\* part_003 lines 98-108: up to the await; the button is disabled on blank text
parseJsonStart ==
  /\ InputScreen
  /\ ~IsBlank(jsonString)
  /\ isLoading' = TRUE
  /\ error' = Null
  /\ parsePromise' = [pending |-> TRUE, text |-> jsonString]
  /\ UNCHANGED <<jsonString, jsonData, originalData, isEdited, parseMetrics,
                 validationErrors, jsonSchema, localStorage, editing>>
  /\ UNCHANGED <<caseSensitive, term, stack, visited, results, spc, pushes, iterations>>
  /\ UNCHANGED <<validatorVars, searchBarVars>>

\* json-parser.ts lines 18-35 and part_003 lines 110-120: the promise resolves
parseJsonResolve ==
  /\ parsePromise.pending
  /\ LET result == parseJsonWithMetrics(parsePromise.text) IN
       /\ result.resolved
       /\ localStorage' = result.metrics
       /\ jsonData' = result.data
       /\ originalData' = JsonRoundTrip(result.data)
       /\ parseMetrics' = result.metrics
       /\ isEdited' = FALSE
       /\ isLoading' = FALSE
       /\ IF ~IsBlank(jsonSchema)
          THEN validationErrors' = validateJsonSchema(result.data, jsonSchema).errors
          ELSE UNCHANGED validationErrors
  /\ parsePromise' = [pending |-> FALSE]
  /\ UNCHANGED <<jsonString, error, jsonSchema, editing>>
  /\ UNCHANGED <<caseSensitive, term, stack, visited, results, spc, pushes, iterations>>
  /\ UNCHANGED <<validatorVars, searchBarVars>>

\* variant: a failed parse clears what was loaded
parseJsonRejectClears ==
  /\ parsePromise.pending
  /\ LET result == parseJsonWithMetrics(parsePromise.text) IN
       /\ ~result.resolved
       /\ isLoading' = FALSE
       /\ error' = Str(result.message)
  /\ parsePromise' = [pending |-> FALSE]
  /\ jsonData' = Null /\ originalData' = Null /\ parseMetrics' = Null
  /\ validationErrors' = <<>>
  /\ UNCHANGED <<jsonString, isEdited, jsonSchema, localStorage, editing>>
  /\ UNCHANGED <<caseSensitive, term, stack, visited, results, spc, pushes, iterations>>
  /\ UNCHANGED <<validatorVars, searchBarVars>>

\* json-parser.ts line 18 throws; part_003 lines 126-129
parseJsonReject ==
  /\ parsePromise.pending
  /\ LET result == parseJsonWithMetrics(parsePromise.text) IN
       /\ ~result.resolved
       /\ isLoading' = FALSE
       /\ error' = Str(result.message)
  /\ parsePromise' = [pending |-> FALSE]
  /\ UNCHANGED <<jsonString, jsonData, originalData, isEdited, parseMetrics,
                 validationErrors, jsonSchema, localStorage, editing>>
  /\ UNCHANGED <<caseSensitive, term, stack, visited, results, spc, pushes, iterations>>
  /\ UNCHANGED <<validatorVars, searchBarVars>>

\* part_002 lines 248-266
handleSchemaChange(value) ==
  /\ DataScreen
  /\ jsonSchema' = value
  /\ IF ~IsBlank(value) /\ Truthy(jsonData)
     THEN validationErrors' = validateJsonSchema(jsonData, value).errors
     ELSE validationErrors' = <<>>
  /\ UNCHANGED <<jsonString, jsonData, originalData, isEdited, isLoading, error,
                 parseMetrics, localStorage, parsePromise, editing>>
  /\ UNCHANGED <<caseSensitive, term, stack, visited, results, spc, pushes, iterations>>
  /\ UNCHANGED <<validatorVars, searchBarVars>>

\* json-tree-node.tsx lines 170-175: only a primitive node is edited
startEditing(path) ==
  /\ DataScreen
  /\ ~editing.on
  /\ NodeAt(jsonData, path) # Undefined
  /\ ~IsObjectLike(NodeAt(jsonData, path))
  /\ editing' = [on |-> TRUE, path |-> path]
  /\ UNCHANGED <<jsonString, jsonData, originalData, isEdited, isLoading, error,
                 parseMetrics, validationErrors, jsonSchema, localStorage, parsePromise>>
  /\ UNCHANGED <<caseSensitive, term, stack, visited, results, spc, pushes, iterations>>
  /\ UNCHANGED <<validatorVars, searchBarVars>>

\* part_003 lines 168-183: the new jsonData, undefined when the walk throws
updateJsonAtPath(path, value) ==
  LET newData == JsonRoundTrip(jsonData) IN
    IF path = <<>> THEN Undefined ELSE AssignAtPath(newData, path, value)

\* json-tree-node.tsx lines 178-201 with part_003 lines 168-183
saveEditedValue(editValue) ==
  /\ editing.on
  /\ LET type == NodeAt(jsonData, editing.path).t
         parsed == ParseEditValue(type, editValue)
     IN IF parsed.ok
        THEN LET newData == updateJsonAtPath(editing.path, parsed.value) IN
               IF newData # Undefined
               THEN jsonData' = newData /\ isEdited' = TRUE /\ UNCHANGED error
               ELSE error' = Str("Failed to update value")
                    /\ UNCHANGED <<jsonData, isEdited>>
        ELSE UNCHANGED <<jsonData, isEdited, error>>
  /\ editing' = [on |-> FALSE]
  /\ UNCHANGED <<jsonString, originalData, isLoading, parseMetrics, validationErrors,
                 jsonSchema, localStorage, parsePromise>>
  /\ UNCHANGED <<caseSensitive, term, stack, visited, results, spc, pushes, iterations>>
  /\ UNCHANGED <<validatorVars, searchBarVars>>

\* part_003 lines 227-232: the error banner clears itself
errorTimeout ==
  /\ error # Null
  /\ error' = Null
  /\ UNCHANGED <<jsonString, jsonData, originalData, isEdited, isLoading, parseMetrics,
                 validationErrors, jsonSchema, localStorage, parsePromise, editing>>
  /\ UNCHANGED <<caseSensitive, term, stack, visited, results, spc, pushes, iterations>>
  /\ UNCHANGED <<validatorVars, searchBarVars>>

(***************************************************************************)
(* What the user of the viewer types and edits.                            *)
(***************************************************************************)
\* {"a": [1, 2, 3]}
DocNumbers == Obj(<<"a">>, <<Arr(<<Num(2), Num(4), Num(6)>>)>>)

\* {"ab": "x", "K": true, "b": null}
DocMixed == Obj(<<"ab", "K", "b">>, <<Str("x"), Bool(TRUE), Null>>)

\* {"p": {"q": []}}
DocNested == Obj(<<"p">>, <<Obj(<<"q">>, <<Arr(<<>>)>>)>>)

JsonTexts ==
  {<<>>, Tokens(DocNumbers), Tokens(DocMixed), Tokens(DocNested), Tokens(Null),
   Tokens(Arr(<<>>)),
   <<Punct("{")>>, <<Punct("["), NumTok(Num(2)), Punct(","), Punct("]")>>}

ViewerSchemaTexts ==
  {<<>>, <<Punct("{")>>,
   Tokens(Schema(<<<<"properties",
            Schema(<<<<"a", Schema(<<<<"items",
               Schema(<<<<"maximum", Num(4)>>>>)>>>>)>>>>)>>>>)),
   Tokens(Schema(<<<<"properties",
            Schema(<<<<"ab", Schema(<<<<"minLength", Num(4)>>>>)>>>>)>>>>))}

EditPaths == {<<"a", "0">>, <<"a", "1">>, <<"a", "2">>, <<"ab">>, <<"K">>, <<"b">>, <<"a">>}

ViewerInit ==
  /\ jsonData = Null
  /\ caseSensitive = FALSE
  /\ ViewerOff
  /\ ValidatorOff
  /\ LoopOff
  /\ SearchBarOff

ViewerNext ==
  \/ \E value \in JsonTexts : handleJsonInput(value)
  \/ \E content \in JsonTexts : handleFileUpload(content)
  \/ parseJsonStart
  \/ parseJsonResolve
  \/ parseJsonReject
  \/ \E value \in ViewerSchemaTexts : handleSchemaChange(value)
  \/ \E path \in EditPaths : startEditing(path)
  \/ \E editValue \in EditTexts : saveEditedValue(editValue)
  \/ errorTimeout

ViewerSpec == ViewerInit /\ [][ViewerNext]_vars

(***************************************************************************)
(* The search bar (src/unnamed/part_002, lines 96-216) over the data of    *)
(* the viewer.  The data is a parsed tree, in which no instance occurs     *)
(* twice, so the visited set of performSearch never stops a step.  A timer *)
(* holds what the callback it was created with closes over.                *)
(***************************************************************************)
\* the results.push of the Object.entries loop (lines 62-72) of a call on a tree
RECURSIVE TreeKeyResults(_, _, _, _, _, _)
TreeKeyResults(node, currentPath, i, rs, folded, sensitive) ==
  IF i > Len(node.keys) THEN rs
  ELSE LET key == node.keys[i]
           keyToSearch == FoldCase(key, sensitive)
       IN TreeKeyResults(node, currentPath, i + 1,
            IF includes(keyToSearch, folded)
            THEN Append(rs, SearchResult(Append(currentPath, key), "key", key, rs))
            ELSE rs,
            folded, sensitive)

\* the while loop (lines 50-89) of a call on a tree, run to its end
RECURSIVE performSearchLoop(_, _, _, _)
performSearchLoop(stk, rs, folded, sensitive) ==
  IF stk = <<>> THEN rs
  ELSE LET value == stk[Len(stk)].value
           currentPath == stk[Len(stk)].path
           popped == SubSeq(stk, 1, Len(stk) - 1)
       IN IF IsObjectLike(value)
          THEN IF value.t = "array"
               THEN performSearchLoop(popped \o ArrayEntries(value, currentPath), rs,
                                      folded, sensitive)
               ELSE performSearchLoop(popped \o ObjectEntries(value, currentPath),
                      TreeKeyResults(value, currentPath, 1, rs, folded, sensitive),
                      folded, sensitive)
          ELSE LET valueStr == FoldCase(String(value), sensitive) IN
                 performSearchLoop(popped,
                   IF includes(valueStr, folded)
                   THEN Append(rs, SearchResult(currentPath, "value", String(value), rs))
                   ELSE rs,
                   folded, sensitive)

\* lines 40-93: the list a call returns
performSearch(t, d, sensitive) ==
  IF t = "" THEN <<>>
  ELSE performSearchLoop(<<[value |-> d, path |-> <<>>]>>, <<>>,
                         FoldCase(t, sensitive), sensitive)

\* the % of the language: the result has the sign of a
JsRemainder(a, n) == IF a >= 0 THEN a % n ELSE -((-a) % n)

\* variant: the index is not wrapped
navigateSearchIndexNoWrap(direction, prev, n) ==
  IF n = 0 THEN prev
  ELSE IF direction = "next" THEN prev + 1 ELSE prev - 1

\* lines 130-138: the index after navigateSearch(direction) on n results
navigateSearchIndex(direction, prev, n) ==
  IF n = 0 THEN prev
  ELSE IF direction = "next" THEN JsRemainder(prev + 1, n)
  ELSE JsRemainder(prev - 1 + n, n)

\* variant: the first result is always taken as current
FirstIndexZero(rs) == 0

\* results.length > 0 ? 0 : -1 (line 107)
FirstIndex(rs) == IF Len(rs) > 0 THEN 0 ELSE -1

\* variant: a pending timer is never cancelled
clearTimeoutNever(pending, id) == pending

\* clearTimeout(id)
clearTimeout(pending, id) == {tm \in pending : tm.id # id}

\* an id that no pending timer has and that the ref does not hold
FreshTimerId(pending) ==
  CHOOSE id \in 1..(Cardinality(pending) + 2) :
    /\ id # searchTimeoutRef
    /\ \A tm \in pending : tm.id # id
    /\ \A other \in 1..(id - 1) :
         other = searchTimeoutRef \/ \E tm \in pending : tm.id = other

\* the effect of lines 119-127 after a render with a new term, new data or a new
\* performSearch: the cleanup, then debouncedSearch(t) (lines 98-116)
RunSearchEffect(t, d, sensitive) ==
  LET cleaned == clearTimeout(timers, searchTimeoutRef)
      cleared == clearTimeout(cleaned, searchTimeoutRef)
      id == FreshTimerId(cleared)
  IN /\ timers' = cleared \cup {[id |-> id, term |-> t, data |-> d, cs |-> sensitive]}
     /\ searchTimeoutRef' = id

\* the input's onChange (line 169), the clear button (line 213), Escape (part_003
\* lines 209-211)
setSearchTerm(t) ==
  /\ t # searchTermState
  /\ t = "" => searchTermState # ""
  /\ searchTermState' = t
  /\ RunSearchEffect(t, jsonData, caseSensitive)
  /\ UNCHANGED <<jsonData, caseSensitive, searchResults, currentSearchIndex>>
  /\ UNCHANGED <<term, stack, visited, results, spc, pushes, iterations>>
  /\ UNCHANGED <<validatorVars, viewerVars>>

\* the case button (line 177), shown while the term is not empty (line 174)
toggleCaseSensitive ==
  /\ searchTermState # ""
  /\ caseSensitive' = ~caseSensitive
  /\ RunSearchEffect(searchTermState, jsonData, ~caseSensitive)
  /\ UNCHANGED <<jsonData, searchTermState, searchResults, currentSearchIndex>>
  /\ UNCHANGED <<term, stack, visited, results, spc, pushes, iterations>>
  /\ UNCHANGED <<validatorVars, viewerVars>>

\* an in-place edit of the tree (part_003 lines 168-183) gives the bar new data
editJsonData(path, value) ==
  /\ NodeAt(jsonData, path) # Undefined
  /\ ~IsObjectLike(NodeAt(jsonData, path))
  /\ jsonData' = AssignAtPath(JsonRoundTrip(jsonData), path, value)
  /\ RunSearchEffect(searchTermState, jsonData', caseSensitive)
  /\ UNCHANGED <<caseSensitive, searchTermState, searchResults, currentSearchIndex>>
  /\ UNCHANGED <<term, stack, visited, results, spc, pushes, iterations>>
  /\ UNCHANGED <<validatorVars, viewerVars>>

\* the callback of setTimeout (lines 103-114) runs
timerFires ==
  /\ \E tm \in timers :
       /\ timers' = timers \ {tm}
       /\ IF Truthy(tm.data) /\ tm.term # ""
          THEN LET found == performSearch(tm.term, tm.data, tm.cs) IN
                 /\ searchResults' = found
                 /\ currentSearchIndex' = FirstIndex(found)
          ELSE /\ searchResults' = <<>>
               /\ currentSearchIndex' = -1
  /\ UNCHANGED <<jsonData, caseSensitive, searchTermState, searchTimeoutRef>>
  /\ UNCHANGED <<term, stack, visited, results, spc, pushes, iterations>>
  /\ UNCHANGED <<validatorVars, viewerVars>>

\* the previous and next buttons (lines 188-203), enabled while there are results
navigateSearch(direction) ==
  /\ searchTermState # ""
  /\ Len(searchResults) # 0
  /\ currentSearchIndex' =
       navigateSearchIndex(direction, currentSearchIndex, Len(searchResults))
  /\ UNCHANGED <<jsonData, caseSensitive, searchTermState, searchResults, timers,
                 searchTimeoutRef>>
  /\ UNCHANGED <<term, stack, visited, results, spc, pushes, iterations>>
  /\ UNCHANGED <<validatorVars, viewerVars>>

\* lines 142-158: the index after a key on n results from the index prev; both
\* tests are made on every key and the two updates of a Shift+F3 are applied
\* one after the other
handleKeyDownIndex(key, shiftKey, onSearchInput, prev, n) ==
  LET afterFirst ==
        IF (key = "F3" \/ (key = "Enter" /\ onSearchInput)) /\ n > 0
        THEN navigateSearchIndex("next", prev, n)
        ELSE prev
  IN IF key = "F3" /\ shiftKey /\ n > 0
     THEN navigateSearchIndex("prev", afterFirst, n)
     ELSE afterFirst

\* lines 141-161: the listener of the window
handleKeyDown(key, shiftKey, onSearchInput) ==
  /\ currentSearchIndex' =
       handleKeyDownIndex(key, shiftKey, onSearchInput, currentSearchIndex,
                          Len(searchResults))
  /\ UNCHANGED <<jsonData, caseSensitive, searchTermState, searchResults, timers,
                 searchTimeoutRef>>
  /\ UNCHANGED <<term, stack, visited, results, spc, pushes, iterations>>
  /\ UNCHANGED <<validatorVars, viewerVars>>

(***************************************************************************)
(* What the user of the search bar types, edits and presses.               *)
(***************************************************************************)
\* {"ab": "a", "K": ["k", "b"]}
DocSearched == Obj(<<"ab", "K">>, <<Str("a"), Arr(<<Str("k"), Str("b")>>)>>)

BarTerms == {"", "a", "k", "K", "b"}

BarEditPaths == {<<"ab">>, <<"K", "0">>, <<"K">>}

BarEditValues == {Str("a"), Str("k")}

Keys == {"F3", "Enter", "x"}

\* the bar is mounted with the data parsed; its effect has set the first timer
SearchBarInit ==
  /\ jsonData = DocSearched
  /\ caseSensitive = FALSE
  /\ searchTermState = ""
  /\ searchResults = <<>>
  /\ currentSearchIndex = -1
  /\ timers = {[id |-> 1, term |-> "", data |-> DocSearched, cs |-> FALSE]}
  /\ searchTimeoutRef = 1
  /\ ValidatorOff
  /\ LoopOff
  /\ ViewerOff

SearchBarNext ==
  \/ \E t \in BarTerms : setSearchTerm(t)
  \/ toggleCaseSensitive
  \/ \E path \in BarEditPaths, value \in BarEditValues : editJsonData(path, value)
  \/ timerFires
  \/ \E direction \in {"next", "prev"} : navigateSearch(direction)
  \/ \E key \in Keys, shiftKey \in BOOLEAN, onSearchInput \in BOOLEAN :
       handleKeyDown(key, shiftKey, onSearchInput)

SearchBarSpec == SearchBarInit /\ [][SearchBarNext]_vars

(***************************************************************************)
(* Vocabulary of the properties.                                           *)
(***************************************************************************)
ParsedSchema == JSONParse(schemaString)

RootSchema == ParsedSchema.val

\* the call is over and the schema text was JSON for an object
DoneOnObjectSchema == pc = "done" /\ ParsedSchema.ok /\ RootSchema.t = "object"

Count(seq, x) == Cardinality({i \in 1..Len(seq) : seq[i] = x})

Occurs(seq, x) == \E i \in 1..Len(seq) : seq[i] = x

\* what JSON Schema asks of a value for a type name
TypeFails(d, ty) ==
  CASE ty = Str("integer") -> ~(d.t = "number" /\ d.k = "finite" /\ d.twice % 2 = 0)
    [] ty = Str("number") -> ~(d.t = "number" /\ d.k = "finite")
    [] OTHER -> Str(getJsonType(d)) # ty

\* the root node has no `type`, or the value passes it
RootTypePasses ==
  ~Truthy(Get(RootSchema, "type")) \/ ~TypeFails(data, Get(RootSchema, "type"))

\* validation of the root stops on a null sub-schema
RootThrows == validateAgainstSchema(data, RootSchema, "", <<>>).threw

(***************************************************************************)
(* C1: when the schema text is not valid JSON, the result is exactly one   *)
(* error: path "schema", message "Invalid schema format", value the raw    *)
(* schema text - whatever the data is.                                     *)
(***************************************************************************)
C1_InvalidSchemaText ==
  (pc = "done" /\ ~ParsedSchema.ok) =>
    errors = <<[path |-> "schema", message |-> "Invalid schema format",
                value |-> RawText(schemaString)]>>

C1_Witness ==
  /\ pc = "done" /\ ~ParsedSchema.ok
  /\ Len(schemaString) > 3 /\ IsPlainObject(data)
  /\ Len(errors) = 1 /\ errors[1].path = "schema"

(***************************************************************************)
(* C2: validateJsonSchema never throws - for valid and invalid schema      *)
(* text, and for parsed schemas holding null or other non-object values in *)
(* schema positions, the call returns a list of errors.                    *)
(***************************************************************************)
C2_NeverThrows ==
  pc = "done" =>
    /\ ~thrown
    /\ \A i \in 1..Len(errors) : DOMAIN errors[i] = {"path", "message", "value"}

C2_Witness ==
  /\ pc = "done" /\ ParsedSchema.ok /\ RootSchema.t = "object"
  /\ RootThrows /\ ~thrown /\ Len(errors) >= 1

(***************************************************************************)
(* C3: when a node has `type` and the value fails it (integer, number or   *)
(* any other type name), the node and everything below it contribute       *)
(* exactly one error, at the node's path; no other check of the node runs. *)
(***************************************************************************)
C3_TypeShortCircuit ==
  (DoneOnObjectSchema /\ Truthy(Get(RootSchema, "type"))
     /\ TypeFails(data, Get(RootSchema, "type"))) =>
    /\ Len(errors) = 1
    /\ errors[1].path = ""
    /\ errors[1].value = data

C3_Witness ==
  /\ DoneOnObjectSchema
  /\ RootSchema = Loaded(Str("string")) /\ data = ObjAB
  /\ Len(errors) = 1 /\ errors[1].message = "Expected type string, got object"

(***************************************************************************)
(* C4: for type "integer" a non-number yields "Expected integer, got       *)
(* <type>", a number with a fraction yields "Expected integer, got decimal *)
(* number ...", a non-finite number yields "Expected finite integer, got   *)
(* ...", and a finite integral number yields no error.                     *)
(***************************************************************************)
C4_IntegerMessages ==
  (DoneOnObjectSchema /\ RootSchema = Schema(<<<<"type", Str("integer")>>>>)) =>
    IF data.t # "number"
    THEN errors = <<Err("", "Expected integer, got " \o getJsonType(data), data)>>
    ELSE IF data.k # "finite"
    THEN errors = <<Err("", "Expected finite integer, got " \o NumStr(data), data)>>
    ELSE IF data.twice % 2 # 0
    THEN errors = <<Err("", "Expected integer, got decimal number " \o NumStr(data), data)>>
    ELSE errors = <<>>

(***************************************************************************)
(* C5: for a plain-object value, the required check appends one "Missing   *)
(* required property" error (value undefined, path the name at the root)   *)
(* per entry of `required` that is not an own key of the value, for every  *)
(* property name, and nothing for names that are keys; for values that are *)
(* not plain objects it appends nothing.                                   *)
(***************************************************************************)
MissingError(name) == Err(name, "Missing required property: " \o name, Undefined)

C5_RequiredOwnKeys ==
  (DoneOnObjectSchema /\ RootTypePasses
     /\ Get(RootSchema, "required").t = "array") =>
    LET R == Get(RootSchema, "required").items IN
      \A i \in 1..Len(R) :
        Count(errors, MissingError(R[i].s)) =
          IF IsPlainObject(data) /\ R[i].s \notin Range(data.keys)
          THEN Count(R, R[i]) ELSE 0

(***************************************************************************)
(* C6: for a plain-object value and `additionalProperties === false`,      *)
(* every key of the value not declared in `properties` (no name is         *)
(* declared when `properties` is absent or empty) gets exactly one         *)
(* "Additional property not allowed" error, and declared keys get none.    *)
(***************************************************************************)
AdditionalError(d, key) ==
  Err(key, "Additional property not allowed: " \o key, Get(d, key))

C6_AdditionalProperties ==
  (DoneOnObjectSchema /\ RootTypePasses /\ IsPlainObject(data)
     /\ Get(RootSchema, "additionalProperties") = Bool(FALSE)) =>
    LET properties == Get(RootSchema, "properties")
        declared == IF properties.t = "object" THEN Range(properties.keys) ELSE {}
    IN \A i \in 1..Len(data.keys) :
         Count(errors, AdditionalError(data, data.keys[i])) =
           IF data.keys[i] \in declared THEN 0 ELSE 1

(***************************************************************************)
(* C7: for an array of length n, "Array too short" is reported iff         *)
(* minItems is present and n < minItems, and "Array too long" iff maxItems *)
(* is present and n > maxItems, for every bound >= 0, 0 included.          *)
(***************************************************************************)
TooShortError(d, bound) ==
  Err("", "Array too short. Minimum items: " \o ToString(bound)
            \o ", got " \o ToString(Len(d.items)), d)

TooLongError(d, bound) ==
  Err("", "Array too long. Maximum items: " \o ToString(bound)
            \o ", got " \o ToString(Len(d.items)), d)

IsCount(v) == v.t = "number" /\ v.k = "finite" /\ v.twice % 2 = 0 /\ v.twice >= 0

C7_ArrayLengthBounds ==
  (DoneOnObjectSchema /\ RootTypePasses /\ IsArray(data)
     /\ (Get(RootSchema, "minItems") = Undefined \/ IsCount(Get(RootSchema, "minItems")))
     /\ (Get(RootSchema, "maxItems") = Undefined \/ IsCount(Get(RootSchema, "maxItems")))) =>
    LET lo == Get(RootSchema, "minItems")
        hi == Get(RootSchema, "maxItems")
        n == Len(data.items)
    IN /\ (\E b \in 0..(MaxBound + 8) : Occurs(errors, TooShortError(data, b)))
            <=> (lo # Undefined /\ n < lo.twice \div 2)
       /\ (\E b \in 0..(MaxBound + 8) : Occurs(errors, TooLongError(data, b)))
            <=> (hi # Undefined /\ n > hi.twice \div 2)

(***************************************************************************)
(* C8: the equality used by const, enum and uniqueItems ignores object key *)
(* order: a value with the same key/value pairs as the constant (or as an  *)
(* enum candidate) in another key order is accepted, and two such array    *)
(* items are reported as duplicates.                                       *)
(***************************************************************************)
RECURSIVE DeepEqual(_, _)
DeepEqual(a, b) ==
  IF a.t # b.t THEN FALSE
  ELSE IF a.t = "array"
  THEN Len(a.items) = Len(b.items)
       /\ \A i \in 1..Len(a.items) : DeepEqual(a.items[i], b.items[i])
  ELSE IF a.t = "object"
  THEN Range(a.keys) = Range(b.keys)
       /\ \A key \in Range(a.keys) : DeepEqual(Get(a, key), Get(b, key))
  ELSE a = b

C8_KeyOrderIgnored ==
  DoneOnObjectSchema =>
    /\ (RootSchema.keys = <<"const">> /\ DeepEqual(data, Get(RootSchema, "const")))
         => errors = <<>>
    /\ (RootSchema.keys = <<"enum">>
          /\ \E i \in 1..Len(Get(RootSchema, "enum").items) :
               DeepEqual(data, Get(RootSchema, "enum").items[i]))
         => errors = <<>>
    /\ (Get(RootSchema, "uniqueItems") = Bool(TRUE) /\ RootTypePasses /\ IsArray(data)
          /\ \E i, j \in 1..Len(data.items) :
               i < j /\ DeepEqual(data.items[i], data.items[j]))
         => \E i \in 1..Len(errors) : errors[i].path = "" /\ errors[i].value = data
                /\ errors[i] \notin {TooShortError(data, b) : b \in 0..(MaxBound + 8)}
                /\ errors[i] \notin {TooLongError(data, b) : b \in 0..(MaxBound + 8)}

(***************************************************************************)
(* C9: the string constraints of one node are not mutually exclusive: for  *)
(* a string value minLength, maxLength, pattern and format are each judged *)
(* on their own whenever present, also next to a matching `type`; each     *)
(* violated one contributes exactly one error and each satisfied one       *)
(* none.  "x" against {minLength 2, maxLength 5} gives exactly one "String *)
(* too short" error.  (Patterns that compile; format names that are one of *)
(* the five formats or have no validator at all.)                          *)
(***************************************************************************)
StringKeywords == {"type", "minLength", "maxLength", "pattern", "format"}

InvalidPatternError(pattern) ==
  Err("", "Invalid regex pattern: " \o pattern.s, pattern)

C10_InvalidPatternReported ==
  (DoneOnObjectSchema /\ IsString(data) /\ RootTypePasses
     /\ Get(RootSchema, "pattern").t = "string"
     /\ Get(RootSchema, "pattern").s # ""
     /\ ~RegExpCompiles(Get(RootSchema, "pattern").s)) =>
    /\ Count(errors, InvalidPatternError(Get(RootSchema, "pattern"))) = 1
    /\ ~thrown
    /\ ~Occurs(errors, SchemaError(schemaString))
    /\ errors = MinLengthCheck(data, RootSchema, "")
                  \o MaxLengthCheck(data, RootSchema, "")
                  \o <<InvalidPatternError(Get(RootSchema, "pattern"))>>
                  \o FormatCheck(data, RootSchema, "")
                  \o EnumCheck(data, RootSchema, "")
                  \o ConstCheck(data, RootSchema, "")
                  \o OneOfCheck(data, RootSchema, "", <<>>).errors
                  \o AnyOfCheck(data, RootSchema, "", <<>>).errors
                  \o AllOfCheck(data, RootSchema, "", <<>>).errors

C10_Witness ==
  /\ DoneOnObjectSchema /\ data = Str("x")
  /\ RootSchema = Schema(<<<<"pattern", Str("(")>>, <<"format", Str("email")>>,
                           <<"enum", Arr(<<Str("abc")>>)>>, <<"const", Str("abc")>>,
                           <<"oneOf", OneOfXY>>, <<"anyOf", Arr(<<Never>>)>>,
                           <<"allOf", Arr(<<Schema(<<<<"maxLength", Num(2)>>>>)>>)>>>>)
  /\ Len(errors) = 6
  /\ errors[1] = InvalidPatternError(Str("("))
  /\ errors[2].message = "String does not match format: email"
  /\ errors[5].message = "Data must match exactly one schema. Matched 2 schemas."
  /\ errors[6].message = "Data must match at least one schema. Matched 0 schemas."

(***************************************************************************)
(* C11: for a finite number v, "Number too small" is reported iff          *)
(* v < minimum, "Number too large" iff v > maximum, "must be greater than" *)
(* iff v <= exclusiveMinimum and "must be less than" iff                   *)
(* v >= exclusiveMaximum, each bound on its own when present, a bound of 0 *)
(* included; v equal to minimum or maximum is accepted; a value that is    *)
(* not a finite number never gets a numeric error.                         *)
(***************************************************************************)
NumericKeywords == {"minimum", "maximum", "exclusiveMinimum", "exclusiveMaximum"}

C11_NumericBounds ==
  (DoneOnObjectSchema /\ Range(RootSchema.keys) \subseteq NumericKeywords
     /\ \A key \in Range(RootSchema.keys) : IsFinite(Get(RootSchema, key))) =>
    LET lo == Get(RootSchema, "minimum")
        hi == Get(RootSchema, "maximum")
        xlo == Get(RootSchema, "exclusiveMinimum")
        xhi == Get(RootSchema, "exclusiveMaximum")
        small == lo # Undefined /\ data.twice < lo.twice
        large == hi # Undefined /\ data.twice > hi.twice
        notGreater == xlo # Undefined /\ data.twice <= xlo.twice
        notLess == xhi # Undefined /\ data.twice >= xhi.twice
        One(c) == IF c THEN 1 ELSE 0
        Reported(c, msg) ==
          IF c THEN Count(errors, Err("", msg, data)) = 1
          ELSE ~Occurs(errors, Err("", msg, data))
    IN IF data.t = "number" /\ data.k = "finite"
       THEN /\ lo # Undefined =>
                 Reported(small, "Number too small. Minimum: " \o NumStr(lo)
                                   \o ", got " \o NumStr(data))
            /\ hi # Undefined =>
                 Reported(large, "Number too large. Maximum: " \o NumStr(hi)
                                   \o ", got " \o NumStr(data))
            /\ xlo # Undefined =>
                 Reported(notGreater, "Number must be greater than " \o NumStr(xlo)
                                        \o ", got " \o NumStr(data))
            /\ xhi # Undefined =>
                 Reported(notLess, "Number must be less than " \o NumStr(xhi)
                                     \o ", got " \o NumStr(data))
            /\ Len(errors) = One(small) + One(large) + One(notGreater) + One(notLess)
       ELSE errors = <<>>

C11_Witness ==
  /\ DoneOnObjectSchema /\ data = Num(0)
  /\ RootSchema = Schema(<<<<"minimum", Num(0)>>, <<"maximum", Num(0)>>,
                           <<"exclusiveMinimum", Num(0)>>, <<"exclusiveMaximum", Num(0)>>>>)
  /\ Len(errors) = 2
  /\ errors[1].message = "Number must be greater than 0, got 0"
  /\ errors[2].message = "Number must be less than 0, got 0"

(***************************************************************************)
(* C12: with k the number of oneOf subschemas that yield no error for the  *)
(* value when validated in isolation, a schema holding only oneOf returns  *)
(* nothing when k = 1 and otherwise exactly one error saying "Matched k    *)
(* schemas"; no error of a subschema reaches the returned list.            *)
(***************************************************************************)
IsolatedErrors(sub) == validateAgainstSchema(data, sub, "", <<>>).errors

MatchCount(subs) == Cardinality({i \in 1..Len(subs) : IsolatedErrors(subs[i]) = <<>>})

C12_OneOfExactlyOne ==
  (DoneOnObjectSchema /\ RootSchema.keys = <<"oneOf">>
     /\ IsArray(Get(RootSchema, "oneOf"))
     /\ \A sub \in Range(Get(RootSchema, "oneOf").items) : IsPlainObject(sub)) =>
    LET k == MatchCount(Get(RootSchema, "oneOf").items) IN
      errors = IF k = 1 THEN <<>>
               ELSE <<Err("", "Data must match exactly one schema. Matched "
                                \o ToString(k) \o " schemas.", data)>>

C12_Witness ==
  /\ DoneOnObjectSchema /\ data = Str("x")
  /\ RootSchema = Schema(<<<<"oneOf", Arr(<<Schema(<<<<"const", Str("x")>>>>),
                                             Schema(<<<<"type", Str("string")>>>>)>>)>>>>)
  /\ errors = <<Err("", "Data must match exactly one schema. Matched 2 schemas.", data)>>

(***************************************************************************)
(* C13: a schema holding only allOf returns the errors of its subschemas   *)
(* for the same value at the same path, concatenated in subschema order,   *)
(* and nothing else.                                                       *)
(***************************************************************************)
RECURSIVE ConcatIsolated(_)
ConcatIsolated(subs) ==
  IF subs = <<>> THEN <<>>
  ELSE IsolatedErrors(Head(subs)) \o ConcatIsolated(Tail(subs))

C13_AllOfConcatenates ==
  (DoneOnObjectSchema /\ RootSchema.keys = <<"allOf">>
     /\ IsArray(Get(RootSchema, "allOf"))
     /\ \A sub \in Range(Get(RootSchema, "allOf").items) : IsPlainObject(sub)) =>
    errors = ConcatIsolated(Get(RootSchema, "allOf").items)

C13_Witness ==
  /\ DoneOnObjectSchema /\ data = Str("x")
  /\ RootSchema = Schema(<<<<"allOf", Arr(<<Schema(<<<<"minLength", Num(4)>>>>), Never>>)>>>>)
  /\ Len(errors) = 2
  /\ errors[1].message = "String too short. Minimum length: 2, got 1"
  /\ errors[2].message = "Value must be exactly: \"never\". Got: \"x\""

(***************************************************************************)
(* C14: the errors of one schema node are those of its checks laid end to  *)
(* end in the order type, required, properties then additionalProperties,  *)
(* items, minItems, maxItems, uniqueItems, minLength, maxLength, pattern,  *)
(* format, minimum, maximum, exclusiveMinimum, exclusiveMaximum,           *)
(* multipleOf, enum, const, oneOf, anyOf, allOf (nothing after a type      *)
(* mismatch); the list is not reordered and keeps duplicates: the same     *)
(* violation reached through two allOf branches is listed twice.           *)
(***************************************************************************)
ErrorsInCheckOrder ==
  LET s == RootSchema
      When(c, e) == IF c THEN e ELSE <<>>
      tc == TypeCheck(data, s, "")
      declared == Truthy(Get(s, "properties")) /\ IsPlainObject(data)
      isNumber == data.t = "number" /\ IsFinite(data)
  IN tc.errs \o When(~tc.ret,
       RequiredCheck(data, s, "")
       \o When(declared, PropertiesLoop(data, Get(s, "properties"), 1, "", <<>>).errors)
       \o When(declared, AdditionalPropertiesCheck(data, s, ""))
       \o ItemsCheck(data, s, "", <<>>).errors
       \o When(IsArray(data), MinItemsCheck(data, s, ""))
       \o When(IsArray(data), MaxItemsCheck(data, s, ""))
       \o When(IsArray(data), UniqueItemsCheck(data, s, ""))
       \o When(IsString(data), MinLengthCheck(data, s, ""))
       \o When(IsString(data), MaxLengthCheck(data, s, ""))
       \o When(IsString(data), PatternCheck(data, s, ""))
       \o When(IsString(data), FormatCheck(data, s, ""))
       \o When(isNumber, MinimumCheck(data, s, ""))
       \o When(isNumber, MaximumCheck(data, s, ""))
       \o When(isNumber, ExclusiveMinimumCheck(data, s, ""))
       \o When(isNumber, ExclusiveMaximumCheck(data, s, ""))
       \o When(isNumber, MultipleOfCheck(data, s, ""))
       \o EnumCheck(data, s, "")
       \o ConstCheck(data, s, "")
       \o OneOfCheck(data, s, "", <<>>).errors
       \o AnyOfCheck(data, s, "", <<>>).errors
       \o AllOfCheck(data, s, "", <<>>).errors)

C14_ErrorOrder ==
  (DoneOnObjectSchema /\ ~RootThrows) =>
    /\ errors = ErrorsInCheckOrder
    /\ (RootSchema = Schema(<<<<"allOf", Arr(<<Never, Never>>)>>>>) /\ data # Str("never"))
         => (Len(errors) = 2 /\ errors[1] = errors[2])

C14_Witness ==
  /\ DoneOnObjectSchema /\ ~RootThrows
  /\ data = Arr(<<Str("x"), Str("x")>>)
  /\ RootSchema = Schema(<<<<"minItems", Num(0)>>, <<"maxItems", Num(2)>>,
                           <<"uniqueItems", Bool(TRUE)>>>>)
  /\ Len(errors) = 2
  /\ errors[1] = MaxItemsCheck(data, RootSchema, "")[1]
  /\ errors[2] = UniqueItemsCheck(data, RootSchema, "")[1]

C14_WitnessDuplicate ==
  /\ DoneOnObjectSchema /\ ~RootThrows
  /\ RootSchema = Schema(<<<<"allOf", Arr(<<Never, Never>>)>>>>)
  /\ Len(errors) = 2 /\ errors[1] = errors[2]

(***************************************************************************)
(* C15: every error is located in the value: its path is the pointer of a  *)
(* node of the value (root "", a property step appends .name or, from the  *)
(* root, name; an element step appends [i]), or it reports a missing       *)
(* required property of such a node under that property's pointer;         *)
(* properties visits exactly the declared properties that the value holds, *)
(* in declaration order, and items visits every element in order.          *)
(***************************************************************************)
PropertyPointer(parent, name) == IF parent = "" THEN name ELSE parent \o "." \o name

ElementPointer(parent, i) == parent \o "[" \o ToString(i) \o "]"

RECURSIVE Located(_, _)
Located(v, pointer) ==
  {[path |-> pointer, value |-> v]}
    \cup (IF v.t = "object"
          THEN UNION {Located(v.vals[i], PropertyPointer(pointer, v.keys[i])) :
                        i \in 1..Len(v.keys)}
          ELSE IF v.t = "array"
          THEN UNION {Located(v.items[i], ElementPointer(pointer, i - 1)) :
                        i \in 1..Len(v.items)}
          ELSE {})

PropertyNames == {"a", "b", "c", "zz", "toString"}

IsLocated(e) ==
  \/ \E at \in Located(data, "") : e.path = at.path
  \/ \E at \in Located(data, ""), name \in PropertyNames :
       /\ at.value.t = "object" /\ ~HasOwn(at.value, name)
       /\ e = Err(PropertyPointer(at.path, name),
                  "Missing required property: " \o name, Undefined)

RECURSIVE PresentPropertyErrors(_, _)
PresentPropertyErrors(properties, i) ==
  IF i > Len(properties.keys) THEN <<>>
  ELSE (IF HasOwn(data, properties.keys[i])
        THEN validateAgainstSchema(Get(data, properties.keys[i]), properties.vals[i],
                                   properties.keys[i], <<>>).errors
        ELSE <<>>) \o PresentPropertyErrors(properties, i + 1)

RECURSIVE ElementErrors(_, _)
ElementErrors(items, i) ==
  IF i > Len(data.items) THEN <<>>
  ELSE validateAgainstSchema(data.items[i], items, "[" \o ToString(i - 1) \o "]", <<>>).errors
         \o ElementErrors(items, i + 1)

C15_ErrorPaths ==
  (DoneOnObjectSchema /\ ~RootThrows) =>
    /\ \A i \in 1..Len(errors) : IsLocated(errors[i])
    /\ (RootSchema.keys = <<"properties">> /\ IsPlainObject(Get(RootSchema, "properties"))
          /\ IsPlainObject(data))
         => errors = PresentPropertyErrors(Get(RootSchema, "properties"), 1)
    /\ (RootSchema.keys = <<"items">> /\ IsPlainObject(Get(RootSchema, "items"))
          /\ IsArray(data))
         => errors = ElementErrors(Get(RootSchema, "items"), 1)

(***************************************************************************)
(* C16: a schema object none of whose keys is a keyword the validator      *)
(* reads, the empty schema {} included, yields no error for any value.     *)
(***************************************************************************)
RecognizedKeywords ==
  {"type", "required", "properties", "additionalProperties", "items", "minItems",
   "maxItems", "uniqueItems", "minLength", "maxLength", "pattern", "format",
   "minimum", "maximum", "exclusiveMinimum", "exclusiveMaximum", "multipleOf",
   "enum", "const", "oneOf", "anyOf", "allOf"}

C16_UnrecognizedAcceptsAll ==
  (DoneOnObjectSchema /\ Range(RootSchema.keys) \cap RecognizedKeywords = {}) =>
    errors = <<>> /\ ~thrown

C16_Witness ==
  /\ DoneOnObjectSchema /\ data = Str("x")
  /\ RootSchema = Schema(<<<<"minlength", Num(10)>>>>)
  /\ errors = <<>>

C16_WitnessEmpty ==
  /\ DoneOnObjectSchema /\ data = Arr(<<ObjAB, Str("x")>>)
  /\ RootSchema = EmptyObj
  /\ errors = <<>>

(***************************************************************************)
(* Vocabulary of the search claims.  What a search should find is computed *)
(* by a recursive descent over a tree-shaped value, in pre-order.          *)
(***************************************************************************)
\* the child slots of the graph, and how often container id is referred to
Slots ==
  UNION {{<<h, i>> : i \in 1..Len(ObjectValues(jsonData.heap[h]))} :
           h \in 1..Len(jsonData.heap)}

RefCount(id) ==
  Cardinality({sl \in Slots : ObjectValues(jsonData.heap[sl[1]])[sl[2]] = Ref(id)})
    + (IF jsonData.root = Ref(id) THEN 1 ELSE 0)

IsTree == \A id \in 1..Len(jsonData.heap) : RefCount(id) <= 1

\* text contains the term, by the case rule in force
Occurrence(text, sub) ==
  \E i \in 0..Len(text), j \in 0..Len(text) : i <= j /\ SubSeq(text, i + 1, j) = sub

ContainsTerm(text) ==
  IF caseSensitive THEN Occurrence(Chars(text), Chars(term))
  ELSE Occurrence(toLowerCase(Chars(text)), toLowerCase(Chars(term)))

Found(path, type, text) == [path |-> JoinStr(path, "."), type |-> type, text |-> text]

RECURSIVE Flatten(_)
Flatten(seqs) == IF seqs = <<>> THEN <<>> ELSE Head(seqs) \o Flatten(Tail(seqs))

RECURSIVE Expected(_, _)
Expected(v, path) ==
  IF v.t = "ref"
  THEN LET node == jsonData.heap[v.id] IN
    IF node.t = "array"
    THEN Flatten([i \in 1..Len(node.items) |->
                    Expected(node.items[i], Append(path, ToString(i - 1)))])
    ELSE Flatten([i \in 1..Len(node.keys) |->
                    (IF ContainsTerm(node.keys[i])
                     THEN <<Found(Append(path, node.keys[i]), "key", node.keys[i])>>
                     ELSE <<>>)
                    \o Expected(node.vals[i], Append(path, node.keys[i]))])
  ELSE IF ContainsTerm(TemplateStr(v))
       THEN <<Found(path, "value", TemplateStr(v))>>
       ELSE <<>>

Returned == [i \in 1..Len(results) |->
               [path |-> results[i].path, type |-> results[i].type, text |-> results[i].text]]

SameBag(a, b) ==
  /\ Len(a) = Len(b)
  /\ \A x \in Range(a) \cup Range(b) : Count(a, x) = Count(b, x)

(***************************************************************************)
(* C17: the empty term returns nothing; for a non-empty term and a         *)
(* tree-shaped value the returned list holds exactly one key result per    *)
(* object key containing the term and one value result per primitive whose *)
(* String() form contains it, with the dot-joined path and the text, and   *)
(* nothing else; containment ignores case unless caseSensitive is set:     *)
(* "k" finds key "K" only when it is not set, and {"a":{"b":"hello"}}      *)
(* gives one value result at "a.b" for "hello".                            *)
(***************************************************************************)
C17_SearchResults ==
  spc = "returned" =>
    /\ term = "" => results = <<>>
    /\ (term # "" /\ IsTree) => SameBag(Returned, Expected(jsonData.root, <<>>))
    /\ (jsonData = UpperKV /\ term = "k") =>
         Returned = IF caseSensitive THEN <<>>
                    ELSE <<[path |-> "K", type |-> "key", text |-> "K"]>>
    /\ (jsonData = NestedHello /\ term = "hello") =>
         Returned = <<[path |-> "a.b", type |-> "value", text |-> "hello"]>>

C17_Witness ==
  /\ spc = "returned" /\ jsonData = Mixed /\ term = "l" /\ ~caseSensitive
  /\ Len(results) = 3

(***************************************************************************)
(* C18: for a tree-shaped value, whenever child c1 comes before child c2   *)
(* in the same object or array, every returned result located at or below  *)
(* c1 (the key result of c1 included) comes before every returned result   *)
(* located at or below c2.                                                 *)
(***************************************************************************)
\* the results located at or below child i of the container node at path
Below(node, path, i) ==
  IF node.t = "array"
  THEN Range(Expected(node.items[i], Append(path, ToString(i - 1))))
  ELSE (IF ContainsTerm(node.keys[i])
        THEN {Found(Append(path, node.keys[i]), "key", node.keys[i])} ELSE {})
         \cup Range(Expected(node.vals[i], Append(path, node.keys[i])))

ChildPath(node, path, i) ==
  Append(path, IF node.t = "array" THEN ToString(i - 1) ELSE node.keys[i])

RECURSIVE SiblingOrder(_, _)
SiblingOrder(v, path) ==
  v.t = "ref" =>
    LET node == jsonData.heap[v.id]
        children == ObjectValues(node)
    IN /\ \A c1 \in 1..Len(children), c2 \in 1..Len(children) :
            c1 < c2 =>
              \A i \in 1..Len(results), j \in 1..Len(results) :
                (Returned[i] \in Below(node, path, c1)
                   /\ Returned[j] \in Below(node, path, c2)) => i < j
       /\ \A c \in 1..Len(children) : SiblingOrder(children[c], ChildPath(node, path, c))

C18_SiblingOrder ==
  (spc = "returned" /\ term # "" /\ IsTree) => SiblingOrder(jsonData.root, <<>>)

(***************************************************************************)
(* C19: in the list performSearch builds and returns, the result at        *)
(* 0-based index i has position i.                                         *)
(***************************************************************************)
C19_PositionIsIndex ==
  \A i \in 1..Len(results) : results[i].position = i - 1

C19_Witness ==
  /\ spc = "returned" /\ Len(results) >= 3
  /\ results[3].position = 2

(***************************************************************************)
(* C20: the loop of performSearch runs at most once per entry ever put on  *)
(* the stack, at most one more than the number of child slots of the       *)
(* graph, cycles and shared instances included, because a container        *)
(* instance has its children pushed at most once per call.                 *)
(***************************************************************************)
C20_BoundedTraversal ==
  /\ \A id \in 1..Len(jsonData.heap) : pushes[id] <= 1
  /\ iterations <= 1 + Cardinality(Slots)
  /\ Len(stack) + iterations <= 1 + Cardinality(Slots)

C20_Witness ==
  /\ spc = "returned" /\ jsonData = TwoCycle /\ term = "ab"
  /\ visited = {1, 2} /\ pushes = <<1, 1>> /\ iterations = 4

(***************************************************************************)
(* C25: when the returned list holds the error with path "schema" and      *)
(* message "Invalid schema format", it holds nothing else.                 *)
(***************************************************************************)
C25_SchemaErrorAlone ==
  (pc = "done" /\ \E i \in 1..Len(errors) :
                    errors[i].path = "schema" /\ errors[i].message = "Invalid schema format")
    => Len(errors) = 1

(***************************************************************************)
(* C27: for every error about a location of the data, the tree node at     *)
(* that location is marked by hasValidationError and no other node is,     *)
(* whether the location is reached through properties or array elements.   *)
(***************************************************************************)
\* every node of v with its tree path and its pointer
RECURSIVE NodeLocations(_, _, _)
NodeLocations(v, path, pointer) ==
  {[path |-> path, pointer |-> pointer]}
    \cup (IF v.t = "object"
          THEN UNION {NodeLocations(v.vals[i], Append(path, v.keys[i]),
                                    PropertyPointer(pointer, v.keys[i])) :
                        i \in 1..Len(v.keys)}
          ELSE IF v.t = "array"
          THEN UNION {NodeLocations(v.items[i], Append(path, ToString(i - 1)),
                                    ElementPointer(pointer, i - 1)) :
                        i \in 1..Len(v.items)}
          ELSE {})

MarkedBy(err) ==
  {n.path : n \in {m \in TreeNodes(data, <<>>) : hasValidationError(m.path, <<err>>)}}

C27_ErrorMarksItsNode ==
  (DoneOnObjectSchema /\ ~RootThrows) =>
    \A i \in 1..Len(errors) :
      \A at \in NodeLocations(data, <<>>, "") :
        errors[i].path = at.pointer => MarkedBy(errors[i]) = {at.path}

(***************************************************************************)
(* C23: the metrics of a parse count every node of the parsed value, the   *)
(* root included, as nodeCount, and give as maxDepth the greatest number   *)
(* of edges from the root to a node: 0 for a primitive root and for an     *)
(* empty container, and 5 nodes with depth 2 for {"a": [1, 2, 3]}.         *)
(***************************************************************************)
\* the greatest number of edges from the root of d to one of its nodes
GreatestDepth(d) ==
  CHOOSE n \in {Len(m.path) : m \in TreeNodes(d, <<>>)} :
    \A m \in TreeNodes(d, <<>>) : Len(m.path) <= n

C23_MetricsCountTheTree ==
  [][parseJsonResolve =>
       /\ parseMetrics'.nodeCount = Cardinality(TreeNodes(jsonData', <<>>))
       /\ parseMetrics'.maxDepth = GreatestDepth(jsonData')
       /\ (~IsObjectLike(jsonData') \/ ObjectValues(jsonData') = <<>>)
            => parseMetrics'.maxDepth = 0
       /\ jsonData' = DocNumbers
            => parseMetrics'.nodeCount = 5 /\ parseMetrics'.maxDepth = 2]_vars

C23_Witness ==
  /\ jsonData = DocNumbers
  /\ parseMetrics # Null
  /\ parseMetrics.nodeCount = 5
  /\ parseMetrics.maxDepth = 2
  /\ ~isEdited

(***************************************************************************)
(* C24: a parse that fails gives no partial result.  The promise of        *)
(* parseJsonWithMetrics rejects with neither data nor metrics and writes   *)
(* nothing to localStorage; parseJson leaves jsonData, originalData,       *)
(* parseMetrics and validationErrors as they were, sets isLoading to false *)
(* and error to the message of the syntax error.                           *)
(***************************************************************************)
\* the pending parse of a malformed text settles
FailedParseSettles ==
  /\ parsePromise.pending
  /\ ~JSONParse(parsePromise.text).ok
  /\ ~parsePromise'.pending

C24_FailedParseKeepsState ==
  [][FailedParseSettles =>
       /\ DOMAIN parseJsonWithMetrics(parsePromise.text) \cap {"data", "metrics"} = {}
       /\ localStorage' = localStorage
       /\ jsonData' = jsonData
       /\ originalData' = originalData
       /\ parseMetrics' = parseMetrics
       /\ validationErrors' = validationErrors
       /\ isLoading' = FALSE
       /\ error' = Str(SyntaxErrorMessage)]_vars

C24_Witness ==
  /\ error = Str(SyntaxErrorMessage)
  /\ ~isLoading
  /\ ~parsePromise.pending
  /\ parseMetrics # Null
  /\ localStorage = parseMetrics
  /\ ~JSONParse(jsonString).ok

(***************************************************************************)
(* C26: validation is fresh.  In every state of the viewer in which data   *)
(* is loaded and a schema that is not blank is set, validationErrors is    *)
(* what validateJsonSchema gives for the current jsonData and the current  *)
(* jsonSchema.                                                             *)
(***************************************************************************)
C26_ValidationFresh ==
  (Truthy(jsonData) /\ ~IsBlank(jsonSchema)) =>
    validationErrors = validateJsonSchema(jsonData, jsonSchema).errors

(***************************************************************************)
(* C28: the frame of an edit.  A committed edit of a primitive node at a   *)
(* path that is not empty changes jsonData at that path only: every other  *)
(* node keeps its value and type, the edited node keeps its JSON type,     *)
(* originalData is unchanged and isEdited becomes true.  An edit whose     *)
(* text is invalid for the type of the node changes nothing and ends       *)
(* editing.                                                                *)
(***************************************************************************)
\* the edit field is closed by a save whose text the type of the node accepts
CommittedEdit(editValue) ==
  /\ editing.on
  /\ editing.path # <<>>
  /\ ParseEditValue(NodeAt(jsonData, editing.path).t, editValue).ok
  /\ saveEditedValue(editValue)

\* the edit field is closed by a save whose text the type of the node rejects
InvalidEdit(editValue) ==
  /\ editing.on
  /\ ~ParseEditValue(NodeAt(jsonData, editing.path).t, editValue).ok
  /\ saveEditedValue(editValue)

\* path is neither the edited path, nor above it, nor below it
Apart(path, edited) ==
  \E i \in 1..Len(path) : i <= Len(edited) /\ path[i] # edited[i]

C28_EditFrame ==
  [][\A editValue \in EditTexts :
       /\ CommittedEdit(editValue) =>
            /\ \A n \in TreeNodes(jsonData, <<>>) :
                 Apart(n.path, editing.path) => NodeAt(jsonData', n.path) = n.data
            /\ NodeAt(jsonData', editing.path).t = NodeAt(jsonData, editing.path).t
            /\ originalData' = originalData
            /\ isEdited'
       /\ InvalidEdit(editValue) =>
            /\ UNCHANGED <<jsonData, originalData, isEdited, validationErrors, error>>
            /\ ~editing'.on]_vars

(***************************************************************************)
(* C21: navigation wraps.  With n > 0 results "next" takes the index i to  *)
(* (i + 1) mod n and "prev" takes it to (i - 1 + n) mod n, so n times      *)
(* "next" from 0 comes back to 0 and "prev" after "next" restores the      *)
(* index; with n = 0 both leave the index as it is.                        *)
(***************************************************************************)
\* the index after k times "next" from i on n results
RECURSIVE NextTimes(_, _, _)
NextTimes(k, i, n) ==
  IF k = 0 THEN i ELSE NextTimes(k - 1, navigateSearchIndex("next", i, n), n)

C21_NavigationWraps ==
  /\ [](LET n == Len(searchResults)
            i == currentSearchIndex
        IN /\ n > 0 =>
                /\ navigateSearchIndex("next", i, n) = (i + 1) % n
                /\ navigateSearchIndex("prev", i, n) = (i - 1 + n) % n
                /\ navigateSearchIndex("prev", navigateSearchIndex("next", i, n), n) = i
                /\ NextTimes(n, 0, n) = 0
           /\ n = 0 =>
                /\ navigateSearchIndex("next", i, n) = i
                /\ navigateSearchIndex("prev", i, n) = i)
  /\ [][/\ navigateSearch("next") =>
             currentSearchIndex' = (currentSearchIndex + 1) % Len(searchResults)
        /\ navigateSearch("prev") =>
             currentSearchIndex' =
               (currentSearchIndex - 1 + Len(searchResults)) % Len(searchResults)]_vars

C21_Witness ==
  /\ Len(searchResults) >= 3
  /\ currentSearchIndex = Len(searchResults) - 1
  /\ timers = {}

(***************************************************************************)
(* C22: the search is debounced.  However the term changes before the      *)
(* timer runs, at most one timer is pending and it is the one of the last  *)
(* term; when it fires searchResults becomes the results of that term on   *)
(* the current data, or the empty list for an empty term, with nothing of  *)
(* the earlier results kept, and currentSearchIndex becomes 0, or -1 when  *)
(* there are no results.                                                   *)
(***************************************************************************)
C22_DebouncedSearch ==
  /\ [](/\ Cardinality(timers) <= 1
        /\ \A tm \in timers :
             tm.term = searchTermState /\ tm.data = jsonData /\ tm.cs = caseSensitive)
  /\ [][timerFires =>
          /\ searchResults' =
               IF searchTermState = "" THEN <<>>
               ELSE performSearch(searchTermState, jsonData, caseSensitive)
          /\ currentSearchIndex' = IF searchResults' = <<>> THEN -1 ELSE 0
          /\ timers' = {}]_vars

\* a timer has fired after the term changed while a timer was pending: the
\* results are those of the last term and differ from those of the term before
C22_Witness ==
  /\ timers = {}
  /\ searchTermState = "b"
  /\ searchTimeoutRef = 2
  /\ Len(searchResults) = 2
  /\ \A i \in 1..Len(searchResults) : searchResults[i].path \in {"ab", "K.1"}

(***************************************************************************)
(* C29: in every state of the search bar, whatever the sequence of term    *)
(* changes, case toggles, data edits, timer firings and navigations,       *)
(* currentSearchIndex is -1 exactly when searchResults is empty, and       *)
(* otherwise it is at least 0 and less than the number of results.         *)
(***************************************************************************)
C29_SearchIndexInRange ==
  /\ currentSearchIndex = -1 <=> searchResults = <<>>
  /\ searchResults # <<>> =>
       (0 <= currentSearchIndex /\ currentSearchIndex < Len(searchResults))

\* a search for a term that is not empty has found nothing
C29_Witness ==
  /\ searchTermState # ""
  /\ timers = {}
  /\ searchResults = <<>>
  /\ currentSearchIndex = -1
  /\ searchTimeoutRef = 2

(***************************************************************************)
(* C30: with a list of n > 0 results and the index i, Shift+F3 takes the   *)
(* index to the previous result, (i - 1 + n) mod n, and F3 without Shift   *)
(* takes it to the next one, (i + 1) mod n.                                *)
(***************************************************************************)
C30_KeyboardNavigation ==
  LET n == Len(searchResults)
      i == currentSearchIndex
  IN n > 0 =>
       \A onSearchInput \in BOOLEAN :
         /\ handleKeyDownIndex("F3", TRUE, onSearchInput, i, n) = (i - 1 + n) % n
         /\ handleKeyDownIndex("F3", FALSE, onSearchInput, i, n) = (i + 1) % n

====
